---- MODULE Spec2Model ----
(***************************************************************************)
(* Model of the spike routing crate: the per-method route builder          *)
(* (src/src/router.rs), the handler adapter (src/src/handler.rs), request  *)
(* extraction (src/src/extract.rs) and response conversion                 *)
(* (src/src/response.rs).                                                  *)
(*                                                                         *)
(* Two specifications:                                                     *)
(*   Spec         router construction (get/post/.../any, chained builder   *)
(*                calls, Router::route with MethodRouter::merge) followed  *)
(*                or interleaved with Router::call dispatches;             *)
(*   SpecHandler  one Handler::call of the macro-generated adapter, one    *)
(*                step per extraction.                                     *)
(***************************************************************************)
EXTENDS Integers, Sequences, FiniteSets, TLC

\* ------------------------------------------------------------------------
\* Bounds
\* ------------------------------------------------------------------------

\* Total number of handler registrations (free-function or chained builder
\* calls) in one router construction.
MaxRegs == 2

\* ------------------------------------------------------------------------
\* Basic values
\* ------------------------------------------------------------------------

\* Option::None where the value, when present, is a name.
None == "None"

\* Option<T> for structured values: the empty sequence is None, a
\* one-element sequence is Some(value).
NoneOpt == <<>>
Some(x) == <<x>>

\* Option::None in a MethodRouter field; handlers are numbered from 1.
NoHandler == 0

\* The nine http::Method constants Router::call matches on.
Methods == {"GET", "POST", "PUT", "PATCH", "DELETE", "HEAD", "OPTIONS", "TRACE", "CONNECT"}

\* Fields of struct MethodRouter.
Slots == {"get", "post", "put", "patch", "delete", "options", "trace", "head", "connect", "fallback"}

\* The nine per-method fields (all but fallback).
MethodSlots == Slots \ {"fallback"}

\* Order in which merge_methods! visits the fields.
MergeOrder == <<"get", "post", "put", "patch", "delete", "head", "options", "trace", "connect", "fallback">>

\* Field guarded by each arm of the match in Router::call.
SlotOf(method) ==
    CASE method = "GET" -> "get"
      [] method = "POST" -> "post"
      [] method = "PUT" -> "put"
      [] method = "PATCH" -> "patch"
      [] method = "DELETE" -> "delete"
      [] method = "HEAD" -> "head"
      [] method = "OPTIONS" -> "options"
      [] method = "TRACE" -> "trace"
      [] method = "CONNECT" -> "connect"

\* A handler is identified by the registration call that boxed it: every
\* get(h)/.post(h)/any(h) call builds a fresh Route { svc: Box::new(..) }.
Handlers == 1..MaxRegs

\* Path patterns handed to Router::route, as segment sequences.  A segment
\* that starts with ':' is a named capture.
Patterns == { <<"x">>, <<"users", ":id">>, <<"users", "42">>, <<"users", ":name", ":id">> }

\* Request paths handed to Router::call.
Paths == { <<"x">>, <<"users", "42">>, <<"users", "7">>, <<"users", "7", "9">> }

\* Is the pattern segment a named capture (":name")?
IsParam(seg) == seg \in {":id", ":name"}

\* Name of a capture segment (the text after ':').
ParamName(seg) == IF seg = ":id" THEN "id" ELSE "name"

\* ------------------------------------------------------------------------
\* Program constants
\* ------------------------------------------------------------------------

\* StatusCode::OK
OK == 200

\* StatusCode::CREATED
CREATED == 201

\* StatusCode::UNAUTHORIZED, the rejection of the application-defined part
\* extractor RequireAuth.
UNAUTHORIZED == 401

\* StatusCode::NOT_FOUND
NOT_FOUND == 404

\* StatusCode::METHOD_NOT_ALLOWED
METHOD_NOT_ALLOWED == 405

\* StatusCode::INTERNAL_SERVER_ERROR
INTERNAL_SERVER_ERROR == 500

\* ------------------------------------------------------------------------
\* Text: a String is modelled as its sequence of Unicode scalar values, a
\* body as its sequence of bytes.
\* ------------------------------------------------------------------------

\* "hi"
TextHi == <<104, 105>>

\* "World"
TextWorld == <<87, 111, 114, 108, 100>>

\* "Hi world"
TextHiWorld == <<72, 105, 32, 119, 111, 114, 108, 100>>

\* "Hello: "
TextHello == <<72, 101, 108, 108, 111, 58, 32>>

\* "POST Hello: "
TextPostHello == <<80, 79, 83, 84, 32>> \o TextHello

\* "Any Hello: "
TextAnyHello == <<65, 110, 121, 32>> \o TextHello

\* " - "
TextDash == <<32, 45, 32>>

\* "error reading body"
TextErrorReadingBody ==
    <<101, 114, 114, 111, 114, 32, 114, 101, 97, 100, 105, 110, 103, 32, 98, 111, 100, 121>>

\* Display of http::Method, as used by format!("{method}").
MethodText(m) ==
    CASE m = "GET" -> <<71, 69, 84>>
      [] m = "POST" -> <<80, 79, 83, 84>>
      [] m = "PUT" -> <<80, 85, 84>>
      [] m = "PATCH" -> <<80, 65, 84, 67, 72>>
      [] m = "DELETE" -> <<68, 69, 76, 69, 84, 69>>
      [] m = "HEAD" -> <<72, 69, 65, 68>>
      [] m = "OPTIONS" -> <<79, 80, 84, 73, 79, 78, 83>>
      [] m = "TRACE" -> <<84, 82, 65, 67, 69>>
      [] m = "CONNECT" -> <<67, 79, 78, 78, 69, 67, 84>>
      [] m = "PURGE" -> <<80, 85, 82, 71, 69>>

\* Is b a UTF-8 continuation byte (10xxxxxx)?
IsCont(b) == b \in 128..191

\* Drop the first n elements of a sequence.
Drop(seq, n) == SubSeq(seq, n + 1, Len(seq))

\* std::str::from_utf8 as used by the String extractor: [ok, chars].
RECURSIVE Utf8Decode(_)
Utf8Decode(bytes) ==
    IF bytes = <<>> THEN [ok |-> TRUE, chars |-> <<>>]
    ELSE
      LET b == bytes[1]
          n == Len(bytes)
          width ==
            IF b < 128 THEN 1
            ELSE IF b \in 194..223 /\ n >= 2 /\ IsCont(bytes[2]) THEN 2
            ELSE IF b \in 224..239 /\ n >= 3 /\ IsCont(bytes[2]) /\ IsCont(bytes[3])
                    /\ (b = 224 => bytes[2] >= 160) /\ (b = 237 => bytes[2] <= 159) THEN 3
            ELSE IF b \in 240..244 /\ n >= 4 /\ IsCont(bytes[2]) /\ IsCont(bytes[3])
                    /\ IsCont(bytes[4])
                    /\ (b = 240 => bytes[2] >= 144) /\ (b = 244 => bytes[2] <= 143) THEN 4
            ELSE 0
          cp ==
            CASE width = 1 -> b
              [] width = 2 -> (b - 192) * 64 + (bytes[2] - 128)
              [] width = 3 -> (b - 224) * 4096 + (bytes[2] - 128) * 64 + (bytes[3] - 128)
              [] width = 4 -> (b - 240) * 262144 + (bytes[2] - 128) * 4096
                                + (bytes[3] - 128) * 64 + (bytes[4] - 128)
              [] OTHER -> 0
      IN IF width = 0 THEN [ok |-> FALSE, chars |-> <<>>]
         ELSE LET rest == Utf8Decode(Drop(bytes, width))
              IN IF rest.ok THEN [ok |-> TRUE, chars |-> <<cp>> \o rest.chars]
                 ELSE rest

\* The UTF-8 bytes of a String (Body::from(String) / Body::from(&str)).
RECURSIVE Utf8Encode(_)
Utf8Encode(chars) ==
    IF chars = <<>> THEN <<>>
    ELSE
      LET c == chars[1]
          enc ==
            IF c < 128 THEN <<c>>
            ELSE IF c < 2048 THEN <<192 + (c \div 64), 128 + (c % 64)>>
            ELSE IF c < 65536 THEN
                <<224 + (c \div 4096), 128 + ((c \div 64) % 64), 128 + (c % 64)>>
            ELSE <<240 + (c \div 262144), 128 + ((c \div 4096) % 64),
                   128 + ((c \div 64) % 64), 128 + (c % 64)>>
      IN enc \o Utf8Encode(Tail(chars))

\* "Jesus "
TextJesus == <<74, 101, 115, 117, 115, 32>>

\* ------------------------------------------------------------------------
\* Response conversion (response.rs)
\* ------------------------------------------------------------------------

\* HeaderMap::insert: the value replaces any value stored under the name.
HeaderInsert(headers, name, value) ==
    {h \in headers : h[1] # name} \cup {<<name, value>>}

\* Typed values that handlers return or extractors reject with.
StatusCodeVal(code) == [t |-> "StatusCode", code |-> code]
StringVal(chars) == [t |-> "String", chars |-> chars]
StrVal(chars) == [t |-> "Str", chars |-> chars]
TupleVal(parts, last) == [t |-> "Tuple", parts |-> parts, last |-> last]
ResponseVal(res) == [t |-> "Response", res |-> res]
StringRejection(kind) == [t |-> "StringRejection", kind |-> kind]

\* Byte buffers: kind is one of ByteKinds.
BytesVal(kind, bytes) == [t |-> kind, bytes |-> bytes]

\* The byte-buffer types that implement IntoResponse: &'static [u8],
\* &'static [u8; N], [u8; N], Vec<u8> and Cow<'static, [u8]>.
ByteKinds == {"Slice", "ArrayRef", "Array", "Vec", "Cow"}

\* TagResult stands for an application-defined IntoResponseParts
\* implementation whose Error is a StatusCode: an Ok value sets the header
\* x-tag, an Err value fails with its status code.
TagOk(value) == [t |-> "TagResult", ok |-> TRUE, value |-> value, code |-> 0]
TagErr(code) == [t |-> "TagResult", ok |-> FALSE, value |-> "", code |-> code]

\* Mutant of IntoResponseParts: a StatusCode starts from fresh parts.
IntoResponsePartsFresh(v, parts) ==
    IF v.t = "StatusCode"
    THEN [ok |-> TRUE, parts |-> [status |-> v.code, headers |-> {}], err |-> None]
    ELSE IF v.ok
    THEN [ok |-> TRUE,
          parts |-> [parts EXCEPT !.headers = HeaderInsert(parts.headers, "x-tag", v.value)],
          err |-> None]
    ELSE [ok |-> FALSE, parts |-> parts, err |-> StatusCodeVal(v.code)]

\* IntoResponseParts::into_response_parts(self, parts): [ok, parts, err].
\* A StatusCode overwrites the status and cannot fail.
IntoResponseParts(v, parts) ==
    IF v.t = "StatusCode"
    THEN [ok |-> TRUE, parts |-> [parts EXCEPT !.status = v.code], err |-> None]
    ELSE IF v.ok
    THEN [ok |-> TRUE,
          parts |-> [parts EXCEPT !.headers = HeaderInsert(parts.headers, "x-tag", v.value)],
          err |-> None]
    ELSE [ok |-> FALSE, parts |-> parts, err |-> StatusCodeVal(v.code)]

\* The $( let parts = match $ty.into_response_parts(parts) {..}; )* chain of
\* the tuple conversion: left to right, stopping at the first Err.
RECURSIVE ApplyParts(_, _)
ApplyParts(contribs, parts) ==
    IF contribs = <<>> THEN [ok |-> TRUE, parts |-> parts, err |-> None]
    ELSE LET r == IntoResponseParts(contribs[1], parts)
         IN IF r.ok THEN ApplyParts(Tail(contribs), r.parts) ELSE r

\* Mutant of CowIntoResponse: the bytes are sent as text.
CowIntoResponseAsText(bytes) ==
    [status |-> OK,
     headers |-> HeaderInsert({}, "content-type", "text/plain;charset=utf-8"),
     body |-> bytes]

\* IntoResponse for Cow<'static, [u8]>, which every byte buffer converts
\* through.
CowIntoResponse(bytes) ==
    [status |-> OK,
     headers |-> HeaderInsert({}, "content-type", "application/octet-stream"),
     body |-> bytes]

\* IntoResponse::into_response for every implementing type.
RECURSIVE IntoResponse(_)
IntoResponse(v) ==
    CASE v.t = "StatusCode" ->
           [status |-> v.code, headers |-> {}, body |-> <<>>]
      [] v.t = "Response" -> v.res
      [] v.t \in {"Str", "String"} ->
           [status |-> OK,
            headers |-> HeaderInsert({}, "content-type", "text/plain;charset=utf-8"),
            body |-> Utf8Encode(v.chars)]
      [] v.t = "ArrayRef" -> IntoResponse(BytesVal("Slice", v.bytes))
      [] v.t = "Slice" -> IntoResponse(BytesVal("Cow", v.bytes))
      [] v.t = "Array" -> IntoResponse(BytesVal("Vec", v.bytes))
      [] v.t = "Vec" -> IntoResponse(BytesVal("Cow", v.bytes))
      [] v.t = "Cow" -> CowIntoResponse(v.bytes)
      [] v.t = "StringRejection" ->
           [status |-> INTERNAL_SERVER_ERROR, headers |-> {},
            body |-> Utf8Encode(TextErrorReadingBody)]
      [] v.t = "Tuple" ->
           LET res == IntoResponse(v.last)
               r == ApplyParts(v.parts, [status |-> res.status, headers |-> res.headers])
           IN IF r.ok
              THEN [status |-> r.parts.status, headers |-> r.parts.headers, body |-> res.body]
              ELSE IntoResponse(r.err)

\* ------------------------------------------------------------------------
\* Request extraction (extract.rs)
\* ------------------------------------------------------------------------

\* Extractor types.  Method and HeaderMap are the built-in part extractors,
\* String the built-in full-request extractor; RequireAuth stands for an
\* application-defined FromRequestPart implementation whose Rejection is a
\* StatusCode: it fails when the request has no authorization header.
PartTypes == {"Method", "HeaderMap", "RequireAuth"}

\* Mutant of PartsAfter: the Method extractor moves the method out of the
\* parts, leaving the default method behind.
PartsAfterTakeMethod(ty, parts) ==
    IF ty = "Method" THEN [parts EXCEPT !.method = "GET"] ELSE parts

\* The parts as from_request_parts(&mut parts) leaves them: the extractors
\* clone the field they return and assign nothing.
PartsAfter(ty, parts) == parts

\* FromRequestPart::from_request_parts(&mut parts): [ok, val, rejection].
FromRequestParts(ty, parts) ==
    CASE ty = "Method" ->
           [ok |-> TRUE, val |-> [t |-> "Method", m |-> parts.method], rejection |-> None]
      [] ty = "HeaderMap" ->
           [ok |-> TRUE, val |-> [t |-> "HeaderMap", h |-> parts.headers], rejection |-> None]
      [] ty = "RequireAuth" ->
           IF "authorization" \in parts.headers
           THEN [ok |-> TRUE, val |-> [t |-> "RequireAuth"], rejection |-> None]
           ELSE [ok |-> FALSE, val |-> None, rejection |-> StatusCodeVal(UNAUTHORIZED)]

\* Tuple extractor types, generated by impl_from_request!, and their element
\* types: part extractors followed by one full-request extractor.
TupleTypes == {"(RequireAuth, String)"}
TupleElems(ty) == <<"RequireAuth", "String">>

\* Mutant of FromRequestLeaf: bytes that are not UTF-8 are accepted as the
\* empty string.
FromRequestLeafLossy(ty, parts, body) ==
    IF ty = "String"
    THEN IF body.io_error
         THEN [ok |-> FALSE, val |-> None, rejection |-> StringRejection("Io"), reads |-> 1]
         ELSE LET d == Utf8Decode(body.bytes)
              IN [ok |-> TRUE, val |-> StringVal(d.chars), rejection |-> None, reads |-> 1]
    ELSE LET r == FromRequestParts(ty, parts)
         IN [ok |-> r.ok, val |-> r.val, rejection |-> r.rejection, reads |-> 0]

\* Mutant of FromRequestLeaf: the full-request form of a part extractor reads
\* the body before looking at the parts.
FromRequestLeafReadsBody(ty, parts, body) ==
    IF body.io_error
    THEN [ok |-> FALSE, val |-> None, rejection |-> StringRejection("Io"), reads |-> 1]
    ELSE IF ty = "String"
    THEN LET d == Utf8Decode(body.bytes)
         IN IF d.ok
            THEN [ok |-> TRUE, val |-> StringVal(d.chars), rejection |-> None, reads |-> 1]
            ELSE [ok |-> FALSE, val |-> None,
                  rejection |-> StringRejection("InvalidUtf8"), reads |-> 1]
    ELSE LET r == FromRequestParts(ty, parts)
         IN [ok |-> r.ok, val |-> r.val, rejection |-> r.rejection, reads |-> 1]

\* FromRequest::from_request(req) for String (reads and decodes the body) and
\* for every part extractor (drops the body unread): [ok, val, rejection, reads].
FromRequestLeaf(ty, parts, body) ==
    IF ty = "String"
    THEN IF body.io_error
         THEN [ok |-> FALSE, val |-> None, rejection |-> StringRejection("Io"), reads |-> 1]
         ELSE LET d == Utf8Decode(body.bytes)
              IN IF d.ok
                 THEN [ok |-> TRUE, val |-> StringVal(d.chars), rejection |-> None, reads |-> 1]
                 ELSE [ok |-> FALSE, val |-> None,
                       rejection |-> StringRejection("InvalidUtf8"), reads |-> 1]
    ELSE LET r == FromRequestParts(ty, parts)
         IN [ok |-> r.ok, val |-> r.val, rejection |-> r.rejection, reads |-> 0]

\* The $( let $ty = $ty::from_request_parts(&mut parts).map_err(..)?; )* chain
\* of the tuple extractor: [ok, vals, rejection], the rejection converted to a
\* Response.
RECURSIVE TupleParts(_, _, _)
TupleParts(tys, parts, vals) ==
    IF tys = <<>> THEN [ok |-> TRUE, vals |-> vals, parts |-> parts, rejection |-> None]
    ELSE LET r == FromRequestParts(tys[1], parts)
         IN IF r.ok
            THEN TupleParts(Tail(tys), PartsAfter(tys[1], parts), Append(vals, r.val))
            ELSE [ok |-> FALSE, vals |-> vals, parts |-> parts,
                  rejection |-> ResponseVal(IntoResponse(r.rejection))]

\* FromRequest::from_request(req) for a tuple: the parts in order, then the
\* last element from the reassembled request; Rejection = Response<Body>.
TupleFromRequest(tys, parts, body) ==
    LET n == Len(tys)
        p == TupleParts(SubSeq(tys, 1, n - 1), parts, <<>>)
    IN IF ~p.ok
       THEN [ok |-> FALSE, val |-> None, rejection |-> p.rejection, reads |-> 0]
       ELSE LET l == FromRequestLeaf(tys[n], p.parts, body)
            IN IF l.ok
               THEN [ok |-> TRUE, val |-> [t |-> "TupleArg", elems |-> Append(p.vals, l.val)],
                     rejection |-> None, reads |-> l.reads]
               ELSE [ok |-> FALSE, val |-> None,
                     rejection |-> ResponseVal(IntoResponse(l.rejection)), reads |-> l.reads]

\* FromRequest::from_request(req) for any full-request extractor type.
FromRequest(ty, parts, body) ==
    IF ty \in TupleTypes THEN TupleFromRequest(TupleElems(ty), parts, body)
    ELSE FromRequestLeaf(ty, parts, body)

\* ------------------------------------------------------------------------
\* Handler functions (the application's functions the adapter wraps)
\* ------------------------------------------------------------------------

HandlerFns == {"hello_world", "hello_post", "put_hello_world", "any_hello", "hi", "world",
               "jesus", "guarded", "pair", "with_headers", "headers_only"}

\* Declared parameter types of each function, in order.
FnParams(fn) ==
    CASE fn \in {"hello_world", "put_hello_world", "any_hello"} -> <<"Method", "String">>
      [] fn = "hello_post" -> <<"String">>
      [] fn \in {"hi", "world"} -> <<>>
      [] fn = "jesus" -> <<"Method">>
      [] fn = "guarded" -> <<"RequireAuth", "HeaderMap", "String">>
      [] fn = "pair" -> <<"Method", "(RequireAuth, String)">>
      [] fn = "with_headers" -> <<"HeaderMap", "Method", "String">>
      [] fn = "headers_only" -> <<"HeaderMap">>

\* The value the function returns for its extracted arguments.
CallFn(fn, args) ==
    CASE fn = "hello_world" ->
           TupleVal(<<StatusCodeVal(OK)>>,
                    StringVal(TextHello \o MethodText(args[1].m) \o TextDash \o args[2].chars))
      [] fn = "put_hello_world" ->
           TupleVal(<<StatusCodeVal(CREATED)>>,
                    StringVal(TextHello \o MethodText(args[1].m) \o TextDash \o args[2].chars))
      [] fn = "any_hello" ->
           TupleVal(<<StatusCodeVal(CREATED)>>,
                    StringVal(TextAnyHello \o MethodText(args[1].m) \o TextDash \o args[2].chars))
      [] fn = "hello_post" ->
           TupleVal(<<StatusCodeVal(CREATED)>>, StringVal(TextPostHello \o args[1].chars))
      [] fn = "hi" -> StrVal(TextHiWorld)
      [] fn = "world" -> TupleVal(<<StatusCodeVal(OK)>>, StringVal(TextWorld))
      [] fn = "jesus" -> StringVal(TextJesus \o MethodText(args[1].m))
      [] fn = "guarded" -> TupleVal(<<StatusCodeVal(CREATED)>>, StringVal(args[3].chars))
      [] fn = "pair" ->
           StringVal(MethodText(args[1].m) \o TextDash \o args[2].elems[2].chars)
      [] fn = "with_headers" ->
           TupleVal(<<StatusCodeVal(OK)>>,
                    StringVal(MethodText(args[2].m) \o TextDash \o args[3].chars))
      [] fn = "headers_only" ->
           StatusCodeVal(IF "authorization" \in args[1].h THEN OK ELSE UNAUTHORIZED)

\* ------------------------------------------------------------------------
\* Handler adapter, as one function (handler.rs)
\* ------------------------------------------------------------------------

\* Request::into_parts: the metadata of a request, without its body.
IntoParts(req) ==
    [method |-> req.method, path |-> req.path, headers |-> req.headers,
     extensions |-> req.extensions]

\* The $( let $ty = match $ty::from_request_parts(&mut parts) {..}; )* chain
\* of impl_handler: left to right, returning at the first rejection.
RECURSIVE ExtractParts(_, _, _)
ExtractParts(tys, parts, args) ==
    IF tys = <<>> THEN [ok |-> TRUE, args |-> args, parts |-> parts, rejection |-> None]
    ELSE LET r == FromRequestParts(tys[1], parts)
         IN IF r.ok
            THEN ExtractParts(Tail(tys), PartsAfter(tys[1], parts), Append(args, r.val))
            ELSE [ok |-> FALSE, args |-> args, parts |-> parts, rejection |-> r.rejection]

\* Handler::call for a function fn: the zero-parameter impl calls the
\* function at once; the macro-generated impls extract every parameter but
\* the last from the parts, the last from the reassembled request, then call
\* the function and convert what it returns.
HandlerCall(fn, req) ==
    LET tys == FnParams(fn)
        n == Len(tys)
    IN IF n = 0
       THEN [res |-> IntoResponse(CallFn(fn, <<>>)), called |-> TRUE, reads |-> 0]
       ELSE LET parts == IntoParts(req)
                p == ExtractParts(SubSeq(tys, 1, n - 1), parts, <<>>)
            IN IF ~p.ok
               THEN [res |-> IntoResponse(p.rejection), called |-> FALSE, reads |-> 0]
               ELSE LET l == FromRequest(tys[n], p.parts, req.body)
                    IN IF ~l.ok
                       THEN [res |-> IntoResponse(l.rejection), called |-> FALSE,
                             reads |-> l.reads]
                       ELSE [res |-> IntoResponse(CallFn(fn, Append(p.args, l.val))),
                             called |-> TRUE, reads |-> l.reads]

\* ------------------------------------------------------------------------
\* Path matcher (matchit::Router, as used by Router::route and Router::call)
\* ------------------------------------------------------------------------

\* Does the pattern match the path: same number of segments, every literal
\* segment equal, every capture segment taking the path's segment.
Matches(pattern, path) ==
    /\ Len(pattern) = Len(path)
    /\ \A i \in 1..Len(pattern) : IsParam(pattern[i]) \/ pattern[i] = path[i]

\* The (name, value) pairs captured by a match, in segment order.
RECURSIVE MatchParams(_, _)
MatchParams(pattern, path) ==
    IF pattern = <<>> THEN <<>>
    ELSE (IF IsParam(pattern[1]) THEN << <<ParamName(pattern[1]), path[1]>> >> ELSE <<>>)
         \o MatchParams(Tail(pattern), Tail(path))

\* The matcher tries a literal child before a capture child at every segment:
\* p is found before q when p is literal at the first segment where the two
\* differ in kind.
Prefers(p, q) ==
    \E i \in 1..Len(p) :
        /\ ~IsParam(p[i])
        /\ IsParam(q[i])
        /\ \A j \in 1..(i - 1) : IsParam(p[j]) = IsParam(q[j])

\* matchit::Router::at / at_mut: [ok, pattern, params].
At(rt, path) ==
    LET cands == {p \in DOMAIN rt : Matches(p, path)}
    IN IF cands = {} THEN [ok |-> FALSE, pattern |-> <<>>, params |-> <<>>]
       ELSE LET best == CHOOSE p \in cands : \A q \in cands \ {p} : Prefers(p, q)
            IN [ok |-> TRUE, pattern |-> best, params |-> MatchParams(best, path)]

\* matchit::Router::insert returns Err when the pattern is registered already
\* or names a capture differently from a registered pattern at the same node.
InsertConflict(rt, p) ==
    \E q \in DOMAIN rt :
        \/ q = p
        \/ \E i \in 1..Len(p) :
              /\ i <= Len(q)
              /\ IsParam(p[i]) /\ IsParam(q[i]) /\ p[i] # q[i]
              /\ \A j \in 1..(i - 1) : p[j] = q[j]

\* ------------------------------------------------------------------------
\* MethodRouter (router.rs)
\* ------------------------------------------------------------------------

\* impl Default for MethodRouter: every field None.
DefaultMethodRouter == [s \in Slots |-> NoHandler]

\* Mutant of WithSlot: the other fields are taken from the default value.
WithSlotFromDefault(self, slot, h) == [s \in Slots |-> IF s = slot THEN h ELSE NoHandler]

\* MethodRouter { $method: Some(Route {..}), ..self }: struct update.
WithSlot(self, slot, h) == [self EXCEPT ![slot] = h]

\* Mutant of MergeMethod: a field only the incoming router defines is not
\* adopted.
MergeMethodNoAdopt(self, router, slot) ==
    IF self[slot] # NoHandler /\ router[slot] # NoHandler
    THEN [mr |-> self, panicked |-> TRUE]
    ELSE [mr |-> self, panicked |-> FALSE]

\* Mutant of MergeMethod: a field both define takes the incoming handler
\* without a panic.
MergeMethodOverwrite(self, router, slot) ==
    IF router[slot] # NoHandler
    THEN [mr |-> [self EXCEPT ![slot] = router[slot]], panicked |-> FALSE]
    ELSE [mr |-> self, panicked |-> FALSE]

\* One expansion of merge_methods!($method): [mr, panicked].
MergeMethod(self, router, slot) ==
    IF self[slot] = NoHandler /\ router[slot] # NoHandler
    THEN [mr |-> [self EXCEPT ![slot] = router[slot]], panicked |-> FALSE]
    ELSE IF self[slot] # NoHandler /\ router[slot] # NoHandler
    THEN [mr |-> self, panicked |-> TRUE]
    ELSE [mr |-> self, panicked |-> FALSE]

\* merge_methods!(get, post, ..., fallback): the fields in order, from the
\* i-th on, stopping where one expansion panics: [mr, panicked, slot].
RECURSIVE MergeFrom(_, _, _)
MergeFrom(self, router, i) ==
    IF i > Len(MergeOrder) THEN [mr |-> self, panicked |-> FALSE, slot |-> None]
    ELSE LET r == MergeMethod(self, router, MergeOrder[i])
         IN IF r.panicked THEN [mr |-> r.mr, panicked |-> TRUE, slot |-> MergeOrder[i]]
            ELSE MergeFrom(r.mr, router, i + 1)

\* MethodRouter::merge(&mut self, router).
Merge(self, router) == MergeFrom(self, router, 1)

\* A panic payload: its text, and the field and the pattern it names (None
\* and the empty pattern when it names none).
\* The panic raised by merge: panic!("Method already defined") has no format
\* arguments, so it names neither.
MergePanic == [msg |-> "Method already defined", slot |-> None, path |-> <<>>]

\* A registered pattern the insertion of p conflicts with.
ConflictsWith(rt, p) ==
    CHOOSE q \in DOMAIN rt :
        \/ q = p
        \/ \E i \in 1..Len(p) :
              /\ i <= Len(q)
              /\ IsParam(p[i]) /\ IsParam(q[i]) /\ p[i] # q[i]
              /\ \A j \in 1..(i - 1) : p[j] = q[j]

\* The panic raised by insert(path, route).unwrap(): the Debug form of
\* InsertError::Conflict { with }, which names the registered route.
InsertPanic(with) == [msg |-> "InsertError::Conflict", slot |-> None, path |-> with]

\* ------------------------------------------------------------------------
\* Requests
\* ------------------------------------------------------------------------

\* Request methods: the nine constants and one extension method.
RequestMethods == Methods \cup {"PURGE"}

\* Header sets of a request (names only).
HeaderSets == { {}, {"authorization"} }

\* "hi"
BodyHi == [bytes |-> TextHi, io_error |-> FALSE]

\* Not UTF-8: 'h' followed by the byte 0xFF.
BodyInvalid == [bytes |-> <<104, 255>>, io_error |-> FALSE]

\* Request bodies: empty, ASCII, a two-byte character, invalid UTF-8, a
\* truncated two-byte character, and a stream that fails when read.
Bodies ==
    { [bytes |-> <<>>, io_error |-> FALSE],
      BodyHi,
      [bytes |-> <<195, 169>>, io_error |-> FALSE],
      BodyInvalid,
      [bytes |-> <<104, 195>>, io_error |-> FALSE],
      [bytes |-> <<>>, io_error |-> TRUE] }

\* A request as the transport hands it over: no extensions yet.
NewRequest(method, path, headers, body) ==
    [method |-> method, path |-> path, headers |-> headers, extensions |-> NoneOpt,
     body |-> body]

\* The functions registered by successive registration calls, in the order of
\* examples/routing.rs.
RegisteredFns == <<"hello_world", "hello_post", "put_hello_world", "any_hello", "hi", "world">>

\* The function boxed by the h-th registration call.
RegisteredFn(h) == RegisteredFns[((h - 1) % Len(RegisteredFns)) + 1]

\* HandlerService::call: run a clone of the stored handler on the request.
SvcCall(h, req) == HandlerCall(RegisteredFn(h), req)

\* ------------------------------------------------------------------------
\* State
\* ------------------------------------------------------------------------

VARIABLES
    router,      \* Router.router: registered pattern -> MethodRouter
    pending,     \* the MethodRouter value under construction, as an Option
    nregs,       \* registration calls made so far
    status,      \* "ok", or "panicked" once construction has panicked
    diagnostic,  \* the panic payload, as an Option
    lastOp,      \* the most recent operation, its inputs and the value it replaced
    response,    \* the Response of the most recent Router::call, as an Option
    invoked,     \* the handler invocations made by the most recent Router::call
    hfn,         \* Handler::call: the function being adapted, or None
    hreq,        \* Handler::call: the request it was called with
    hparts,      \* Handler::call: the local parts, as an Option
    hbody,       \* Handler::call: the local body, as an Option (None once moved)
    hpc,         \* Handler::call: position in the adapter
    hidx,        \* Handler::call: index of the next parameter to extract
    hargs,       \* Handler::call: the values extracted so far
    hreads,      \* Handler::call: the parameters whose extraction read the body
    htrace,      \* Handler::call: the events so far, in order
    hres,        \* Handler::call: the Response returned, as an Option
    cval,        \* into_response: the value being converted, as an Option
    cpc,         \* into_response: position in the conversion
    cidx,        \* into_response: index of the next part contributor
    cparts,      \* into_response: the local response parts, as an Option
    cbody,       \* into_response: the local response body, as an Option
    ctrace,      \* into_response: the events so far, in order
    cres,        \* into_response: the Response returned, as an Option
    calls,       \* the Router::call invocations in flight, one record each
    srouter,     \* lib.rs Router.router: registered pattern -> Route
    snregs,      \* lib.rs: on(handler) calls made so far
    sstatus,     \* lib.rs: "ok", or "panicked" once construction has panicked
    sdiagnostic, \* lib.rs: the panic payload, as an Option
    slastOp,     \* lib.rs: the most recent operation and the router before it
    sresponse,   \* lib.rs: the Response of the most recent Router::call, as an Option
    sinvoked,    \* lib.rs: the handler invocations made by the most recent Router::call
    mself,       \* merge: self, the entry merged into, as an Option
    mrouter,     \* merge: the parameter router, the incoming MethodRouter, as an Option
    mbefore,     \* merge: self as it was when merge was entered, as an Option
    midx,        \* merge: index in MergeOrder of the next field to visit
    mpc,         \* merge: "idle", "merging", "returned" or "panicked"
    oa,          \* two registrations: the first MethodRouter value, as an Option
    ob,          \* two registrations: the second MethodRouter value, as an Option
    opa,         \* two registrations: the pattern the first value is registered at
    opb,         \* two registrations: the pattern the second value is registered at
    oab,         \* the outcome of route(opa, oa).route(opb, ob), as an Option
    oba          \* the outcome of route(opb, ob).route(opa, oa), as an Option

routerVars == <<router, pending, nregs, status, diagnostic, lastOp, response, invoked>>

handlerVars == <<hfn, hreq, hparts, hbody, hpc, hidx, hargs, hreads, htrace, hres>>

convVars == <<cval, cpc, cidx, cparts, cbody, ctrace, cres>>

dispatchVars == <<calls>>

singleVars == <<srouter, snregs, sstatus, sdiagnostic, slastOp, sresponse, sinvoked>>

mergeVars == <<mself, mrouter, mbefore, midx, mpc>>

orderVars == <<oa, ob, opa, opb, oab, oba>>

vars == <<router, pending, nregs, status, diagnostic, lastOp, response, invoked,
          hfn, hreq, hparts, hbody, hpc, hidx, hargs, hreads, htrace, hres,
          cval, cpc, cidx, cparts, cbody, ctrace, cres, calls,
          srouter, snregs, sstatus, sdiagnostic, slastOp, sresponse, sinvoked,
          mself, mrouter, mbefore, midx, mpc,
          oa, ob, opa, opb, oab, oba>>

\* The record kept in lastOp.
Op(op, path, slot, handler, incoming, before, req) ==
    [op |-> op, path |-> path, slot |-> slot, handler |-> handler, incoming |-> incoming,
     before |-> before, req |-> req]

\* Router::new(), nothing registered, no dispatch made.
RouterInit ==
    /\ router = <<>>
    /\ pending = NoneOpt
    /\ nregs = 0
    /\ status = "ok"
    /\ diagnostic = NoneOpt
    /\ lastOp = Op("new", <<>>, None, NoHandler, NoneOpt, NoneOpt, NoneOpt)
    /\ response = NoneOpt
    /\ invoked = <<>>

\* No handler call in progress.
HandlerIdle ==
    /\ hfn = None
    /\ hreq = NoneOpt
    /\ hparts = NoneOpt
    /\ hbody = NoneOpt
    /\ hpc = "idle"
    /\ hidx = 0
    /\ hargs = <<>>
    /\ hreads = <<>>
    /\ htrace = <<>>
    /\ hres = NoneOpt

\* No conversion in progress.
ConvIdle ==
    /\ cval = NoneOpt
    /\ cpc = "idle"
    /\ cidx = 0
    /\ cparts = NoneOpt
    /\ cbody = NoneOpt
    /\ ctrace = <<>>
    /\ cres = NoneOpt

\* No Router::call in flight.
DispatchIdle == calls = <<>>

\* The record kept in slastOp.
SingleOp(op, path, handler, before, req) ==
    [op |-> op, path |-> path, handler |-> handler, before |-> before, req |-> req]

\* lib.rs Router::new(), nothing registered, no dispatch made.
SingleIdle ==
    /\ srouter = <<>>
    /\ snregs = 0
    /\ sstatus = "ok"
    /\ sdiagnostic = NoneOpt
    /\ slastOp = SingleOp("new", <<>>, NoHandler, NoneOpt, NoneOpt)
    /\ sresponse = NoneOpt
    /\ sinvoked = <<>>

\* No merge in progress.
MergeIdle ==
    /\ mself = NoneOpt
    /\ mrouter = NoneOpt
    /\ mbefore = NoneOpt
    /\ midx = 0
    /\ mpc = "idle"

\* No pair of registrations under comparison.
OrderIdle ==
    /\ oa = NoneOpt
    /\ ob = NoneOpt
    /\ opa = <<>>
    /\ opb = <<>>
    /\ oab = NoneOpt
    /\ oba = NoneOpt

Init == RouterInit /\ HandlerIdle /\ ConvIdle /\ DispatchIdle /\ SingleIdle /\ MergeIdle /\ OrderIdle

\* ------------------------------------------------------------------------
\* Router construction (router.rs)
\* ------------------------------------------------------------------------

\* The free functions get/post/.../connect(handler), generated by
\* impl_router_methods!: a default MethodRouter with one field set.
MethodFn(slot, h) == WithSlot(DefaultMethodRouter, slot, h)

\* The free function any(handler).
AnyFn(h) == WithSlot(DefaultMethodRouter, "fallback", h)

\* The methods MethodRouter::get/post/.../connect(self, handler), generated by
\* impl_method_router_methods!.
ChainMethod(self, slot, h) == WithSlot(self, slot, h)

\* MethodRouter::any(self, handler).
ChainAny(self, h) == WithSlot(self, "fallback", h)

\* A call of one of the nine free functions.  A dispatch leaves the router
\* and the registration count as they are, so the construction that follows
\* a dispatch is the one possible before it: a builder call is taken from
\* the states construction reaches.
FreeMethod(slot) ==
    /\ status = "ok"
    /\ pending = NoneOpt
    /\ lastOp.op # "call"
    /\ nregs < MaxRegs
    /\ nregs' = nregs + 1
    /\ pending' = Some(MethodFn(slot, nregs + 1))
    /\ lastOp' = Op("free", <<>>, slot, nregs + 1, NoneOpt, NoneOpt, NoneOpt)
    /\ response' = NoneOpt
    /\ invoked' = <<>>
    /\ UNCHANGED <<router, status, diagnostic>>
    /\ UNCHANGED handlerVars
    /\ UNCHANGED convVars
    /\ UNCHANGED dispatchVars
    /\ UNCHANGED singleVars
    /\ UNCHANGED mergeVars
    /\ UNCHANGED orderVars

\* A call of the free function any.
FreeAny ==
    /\ status = "ok"
    /\ pending = NoneOpt
    /\ lastOp.op # "call"
    /\ nregs < MaxRegs
    /\ nregs' = nregs + 1
    /\ pending' = Some(AnyFn(nregs + 1))
    /\ lastOp' = Op("free", <<>>, "fallback", nregs + 1, NoneOpt, NoneOpt, NoneOpt)
    /\ response' = NoneOpt
    /\ invoked' = <<>>
    /\ UNCHANGED <<router, status, diagnostic>>
    /\ UNCHANGED handlerVars
    /\ UNCHANGED convVars
    /\ UNCHANGED dispatchVars
    /\ UNCHANGED singleVars
    /\ UNCHANGED mergeVars
    /\ UNCHANGED orderVars

\* A chained call .get(h)/.post(h)/... on the MethodRouter under construction.
ChainedMethod(slot) ==
    /\ status = "ok"
    /\ pending # NoneOpt
    /\ nregs < MaxRegs
    /\ nregs' = nregs + 1
    /\ pending' = Some(ChainMethod(pending[1], slot, nregs + 1))
    /\ lastOp' = Op("chain", <<>>, slot, nregs + 1, NoneOpt, pending, NoneOpt)
    /\ response' = NoneOpt
    /\ invoked' = <<>>
    /\ UNCHANGED <<router, status, diagnostic>>
    /\ UNCHANGED handlerVars
    /\ UNCHANGED convVars
    /\ UNCHANGED dispatchVars
    /\ UNCHANGED singleVars
    /\ UNCHANGED mergeVars
    /\ UNCHANGED orderVars

\* A chained call .any(h) on the MethodRouter under construction.
ChainedAny ==
    /\ status = "ok"
    /\ pending # NoneOpt
    /\ nregs < MaxRegs
    /\ nregs' = nregs + 1
    /\ pending' = Some(ChainAny(pending[1], nregs + 1))
    /\ lastOp' = Op("chain", <<>>, "fallback", nregs + 1, NoneOpt, pending, NoneOpt)
    /\ response' = NoneOpt
    /\ invoked' = <<>>
    /\ UNCHANGED <<router, status, diagnostic>>
    /\ UNCHANGED handlerVars
    /\ UNCHANGED convVars
    /\ UNCHANGED dispatchVars
    /\ UNCHANGED singleVars
    /\ UNCHANGED mergeVars
    /\ UNCHANGED orderVars

\* The router after Router::route(self, path, route): [router, panicked,
\* diagnostic].  at_mut(path) treats the pattern text as a request path; on a
\* match the route is merged into the matched entry, otherwise it is inserted
\* and the insert result unwrapped.
RouteResult(rt, path, route) ==
    LET m == At(rt, path)
    IN IF m.ok
       THEN LET r == Merge(rt[m.pattern], route)
            IN [router |-> [rt EXCEPT ![m.pattern] = r.mr],
                panicked |-> r.panicked,
                diagnostic |-> IF r.panicked THEN Some(MergePanic) ELSE NoneOpt]
       ELSE IF InsertConflict(rt, path)
            THEN [router |-> rt, panicked |-> TRUE,
                  diagnostic |-> Some(InsertPanic(ConflictsWith(rt, path)))]
            ELSE [router |-> [p \in DOMAIN rt \cup {path} |->
                                 IF p = path THEN route ELSE rt[p]],
                  panicked |-> FALSE, diagnostic |-> NoneOpt]

\* Router::route(self, path, route) with the MethodRouter under construction.
Route(path) ==
    /\ status = "ok"
    /\ pending # NoneOpt
    /\ LET r == RouteResult(router, path, pending[1])
       IN /\ router' = r.router
          /\ status' = IF r.panicked THEN "panicked" ELSE "ok"
          /\ diagnostic' = r.diagnostic
    /\ pending' = NoneOpt
    /\ lastOp' = Op("route", path, None, NoHandler, pending, Some(router), NoneOpt)
    /\ response' = NoneOpt
    /\ invoked' = <<>>
    /\ UNCHANGED nregs
    /\ UNCHANGED handlerVars
    /\ UNCHANGED convVars
    /\ UNCHANGED dispatchVars
    /\ UNCHANGED singleVars
    /\ UNCHANGED mergeVars
    /\ UNCHANGED orderVars

\* ------------------------------------------------------------------------
\* Dispatch (router.rs, impl Service for Router)
\* ------------------------------------------------------------------------

\* Mutant of SelectRoute: the fallback arm comes first.
SelectRouteFallbackFirst(route, method) ==
    IF route["fallback"] # NoHandler THEN route["fallback"]
    ELSE IF method \in Methods /\ route[SlotOf(method)] # NoHandler THEN route[SlotOf(method)]
    ELSE NoHandler

\* The match on *req.method() in Router::call: the field of the request's
\* method when it is Some, else the fallback when it is Some, else None.
SelectRoute(route, method) ==
    IF method \in Methods /\ route[SlotOf(method)] # NoHandler THEN route[SlotOf(method)]
    ELSE IF route["fallback"] # NoHandler THEN route["fallback"]
    ELSE NoHandler

\* Mutant of CallResult: an unmatched path is answered like a missing method.
CallResultMiss405(rt, req) ==
    LET m == At(rt, req.path)
    IN IF m.ok
       THEN LET req1 == [req EXCEPT !.extensions = Some(m.params)]
                h == SelectRoute(rt[m.pattern], req.method)
            IN IF h # NoHandler
               THEN [response |-> SvcCall(h, req1).res,
                     invoked |-> << [handler |-> h, req |-> req1] >>]
               ELSE [response |-> IntoResponse(StatusCodeVal(METHOD_NOT_ALLOWED)),
                     invoked |-> <<>>]
       ELSE [response |-> IntoResponse(StatusCodeVal(METHOD_NOT_ALLOWED)), invoked |-> <<>>]

\* A sequence back to front.
Reverse(seq) == [k \in 1..Len(seq) |-> seq[Len(seq) + 1 - k]]

\* Mutant of CallResult: the captured parameters are attached last capture
\* first.
CallResultParamsReversed(rt, req) ==
    LET m == At(rt, req.path)
    IN IF m.ok
       THEN LET req1 == [req EXCEPT !.extensions = Some(Reverse(m.params))]
                h == SelectRoute(rt[m.pattern], req.method)
            IN IF h # NoHandler
               THEN [response |-> SvcCall(h, req1).res,
                     invoked |-> << [handler |-> h, req |-> req1] >>]
               ELSE [response |-> IntoResponse(StatusCodeVal(METHOD_NOT_ALLOWED)),
                     invoked |-> <<>>]
       ELSE [response |-> IntoResponse(StatusCodeVal(NOT_FOUND)), invoked |-> <<>>]

\* Router::call(&self, req): [response, invoked].
CallResult(rt, req) ==
    LET m == At(rt, req.path)
    IN IF m.ok
       THEN LET req1 == [req EXCEPT !.extensions = Some(m.params)]
                h == SelectRoute(rt[m.pattern], req.method)
            IN IF h # NoHandler
               THEN [response |-> SvcCall(h, req1).res,
                     invoked |-> << [handler |-> h, req |-> req1] >>]
               ELSE [response |-> IntoResponse(StatusCodeVal(METHOD_NOT_ALLOWED)),
                     invoked |-> <<>>]
       ELSE [response |-> IntoResponse(StatusCodeVal(NOT_FOUND)), invoked |-> <<>>]

\* One dispatch of a request (no headers, body "hi") on the router built so
\* far.  Router::call takes
\* &self and leaves the router as it is, so the dispatches that follow a
\* dispatch are those possible before it: a dispatch is taken from the states
\* construction reaches.
Call(method, path) ==
    /\ status = "ok"
    /\ pending = NoneOpt
    /\ lastOp.op # "call"
    /\ LET req == NewRequest(method, path, {}, BodyHi)
           r == CallResult(router, req)
       IN /\ response' = Some(r.response)
          /\ invoked' = r.invoked
          /\ lastOp' = Op("call", <<>>, None, NoHandler, NoneOpt, NoneOpt, Some(req))
    /\ UNCHANGED <<router, pending, nregs, status, diagnostic>>
    /\ UNCHANGED handlerVars
    /\ UNCHANGED convVars
    /\ UNCHANGED dispatchVars
    /\ UNCHANGED singleVars
    /\ UNCHANGED mergeVars
    /\ UNCHANGED orderVars

\* A dispatch of a request with any method and path.
Dispatch ==
    /\ pending = NoneOpt
    /\ lastOp.op # "call"
    /\ \E method \in RequestMethods, path \in Paths : Call(method, path)

Next ==
    \/ \E slot \in MethodSlots : FreeMethod(slot)
    \/ FreeAny
    \/ \E slot \in MethodSlots : ChainedMethod(slot)
    \/ ChainedAny
    \/ \E path \in Patterns : Route(path)
    \/ Dispatch

Spec == Init /\ [][Next]_vars

\* ------------------------------------------------------------------------
\* Handler adapter, step by step (handler.rs)
\* ------------------------------------------------------------------------

\* Requests handed to a handler: every method, header set and body.
HandlerRequests ==
    { NewRequest(m, <<"x">>, h, b) : m \in RequestMethods, h \in HeaderSets, b \in Bodies }

\* A handler function is about to be called on a request.
InitHandler ==
    /\ RouterInit
    /\ hfn \in HandlerFns
    /\ ConvIdle
    /\ DispatchIdle
    /\ SingleIdle
    /\ MergeIdle
    /\ OrderIdle
    /\ hreq \in { Some(r) : r \in HandlerRequests }
    /\ hparts = NoneOpt
    /\ hbody = NoneOpt
    /\ hpc = "call"
    /\ hidx = 0
    /\ hargs = <<>>
    /\ hreads = <<>>
    /\ htrace = <<>>
    /\ hres = NoneOpt

\* Number of declared parameters of the function being adapted.
Arity == Len(FnParams(hfn))

\* Where impl_handler goes after into_parts: to the part extractions when
\* there is more than one parameter, else straight to the last parameter.
AfterIntoParts(n) == IF n > 1 THEN "parts" ELSE "last"

\* Mutant of AfterPart: after the first part extraction the adapter goes to
\* the full-request extraction, whatever parts remain.
AfterPartSkipRest(ok, i, n) == IF ~ok THEN "done" ELSE "last"

\* Mutant of AfterPart: an Err does not return.
AfterPartIgnoreErr(ok, i, n) == IF i + 1 < n THEN "parts" ELSE "last"

\* Where impl_handler goes after the i-th part extraction of n parameters:
\* return on Err, else the next part extraction, else the last parameter.
AfterPart(ok, i, n) ==
    IF ~ok THEN "done"
    ELSE IF i + 1 < n THEN "parts"
    ELSE "last"

\* Where impl_handler goes after the extraction of the last parameter:
\* return on Err, else call the function.
AfterLast(ok) == IF ok THEN "fn" ELSE "done"

\* Handler<()>::call: the request is ignored and the function called.
HCallUnit ==
    /\ hpc = "call"
    /\ Arity = 0
    /\ htrace' = Append(htrace, <<"fn", 0>>)
    /\ hres' = Some(IntoResponse(CallFn(hfn, <<>>)))
    /\ hpc' = "done"
    /\ UNCHANGED <<hfn, hreq, hparts, hbody, hidx, hargs, hreads>>
    /\ UNCHANGED routerVars
    /\ UNCHANGED convVars
    /\ UNCHANGED dispatchVars
    /\ UNCHANGED singleVars
    /\ UNCHANGED mergeVars
    /\ UNCHANGED orderVars

\* let (mut parts, body) = req.into_parts();
HIntoParts ==
    /\ hpc = "call"
    /\ Arity > 0
    /\ hparts' = Some(IntoParts(hreq[1]))
    /\ hbody' = Some(hreq[1].body)
    /\ hidx' = 1
    /\ hpc' = AfterIntoParts(Arity)
    /\ UNCHANGED <<hfn, hreq, hargs, hreads, htrace, hres>>
    /\ UNCHANGED routerVars
    /\ UNCHANGED convVars
    /\ UNCHANGED dispatchVars
    /\ UNCHANGED singleVars
    /\ UNCHANGED mergeVars
    /\ UNCHANGED orderVars

\* let $ty = match $ty::from_request_parts(&mut parts) { Ok(val) => val,
\*     Err(rejection) => return rejection.into_response() };
HExtractPart ==
    /\ hpc = "parts"
    /\ LET r == FromRequestParts(FnParams(hfn)[hidx], hparts[1])
       IN /\ htrace' = Append(htrace, <<"part", hidx>>)
          /\ hparts' = Some(PartsAfter(FnParams(hfn)[hidx], hparts[1]))
          /\ hpc' = AfterPart(r.ok, hidx, Arity)
          /\ hidx' = hidx + 1
          /\ IF r.ok
             THEN /\ hargs' = Append(hargs, r.val)
                  /\ hres' = hres
             ELSE /\ hres' = Some(IntoResponse(r.rejection))
                  /\ hargs' = hargs
    /\ UNCHANGED <<hfn, hreq, hbody, hreads>>
    /\ UNCHANGED routerVars
    /\ UNCHANGED convVars
    /\ UNCHANGED dispatchVars
    /\ UNCHANGED singleVars
    /\ UNCHANGED mergeVars
    /\ UNCHANGED orderVars

\* let req = Request::from_parts(parts, body);
\* let $last = match $last::from_request(req) { Ok(val) => val,
\*     Err(rejection) => return rejection.into_response() };
HExtractLast ==
    /\ hpc = "last"
    /\ LET r == FromRequest(FnParams(hfn)[hidx], hparts[1], hbody[1])
       IN /\ htrace' = Append(htrace, <<"full", hidx>>)
          /\ hreads' = hreads \o [k \in 1..r.reads |-> hidx]
          /\ hpc' = AfterLast(r.ok)
          /\ IF r.ok
             THEN /\ hargs' = Append(hargs, r.val)
                  /\ hres' = hres
             ELSE /\ hres' = Some(IntoResponse(r.rejection))
                  /\ hargs' = hargs
    /\ hparts' = NoneOpt
    /\ hbody' = NoneOpt
    /\ UNCHANGED <<hfn, hreq, hidx>>
    /\ UNCHANGED routerVars
    /\ UNCHANGED convVars
    /\ UNCHANGED dispatchVars
    /\ UNCHANGED singleVars
    /\ UNCHANGED mergeVars
    /\ UNCHANGED orderVars

\* self($($ty,)* $last,).into_response()
HCallFn ==
    /\ hpc = "fn"
    /\ htrace' = Append(htrace, <<"fn", 0>>)
    /\ hres' = Some(IntoResponse(CallFn(hfn, hargs)))
    /\ hpc' = "done"
    /\ UNCHANGED <<hfn, hreq, hparts, hbody, hidx, hargs, hreads>>
    /\ UNCHANGED routerVars
    /\ UNCHANGED convVars
    /\ UNCHANGED dispatchVars
    /\ UNCHANGED singleVars
    /\ UNCHANGED mergeVars
    /\ UNCHANGED orderVars

NextHandler ==
    \/ HCallUnit
    \/ HIntoParts
    \/ HExtractPart
    \/ HExtractLast
    \/ HCallFn

SpecHandler == InitHandler /\ [][NextHandler]_vars

\* The step-by-step adapter returns what HandlerCall computes.
HandlerCallAgrees ==
    hpc = "done" =>
        LET r == HandlerCall(hfn, hreq[1])
        IN /\ hres = Some(r.res)
           /\ Len(hreads) = r.reads
           /\ (r.called <=> \E k \in 1..Len(htrace) : htrace[k][1] = "fn")

\* ------------------------------------------------------------------------
\* Response conversion, step by step (response.rs)
\* ------------------------------------------------------------------------

\* Most part contributors in a converted tuple.
MaxParts == 2

\* "ok"
TextOk == <<111, 107>>

\* Responses built by the application before conversion.
PrebuiltResponses ==
    { [status |-> NOT_FOUND, headers |-> {<<"x-tag", "v1">>}, body |-> TextHi],
      [status |-> OK, headers |-> {}, body |-> <<>>] }

\* Values of the types with a built-in conversion.
LeafValues ==
    { StatusCodeVal(c) : c \in {CREATED, NOT_FOUND} }
    \cup { StrVal(TextOk), StrVal(<<>>), StringVal(TextHi), StringVal(<<233>>) }
    \cup { BytesVal(k, b) : k \in ByteKinds, b \in {<<>>, <<104, 255>>} }
    \cup { ResponseVal(r) : r \in PrebuiltResponses }

\* Part contributors: status codes, and tags that set a header or fail.
PartValues ==
    { StatusCodeVal(c) : c \in {OK, CREATED, NOT_FOUND} }
    \cup { TagOk("v1"), TagOk("v2"), TagErr(UNAUTHORIZED), TagErr(INTERNAL_SERVER_ERROR) }

\* Tuples (part1, ..., partK, final), 1 <= K <= MaxParts; the final element
\* is a leaf value or itself a tuple.
TupleValues ==
    { TupleVal(ps, f) :
        ps \in UNION { [1..k -> PartValues] : k \in 1..MaxParts },
        f \in LeafValues \cup { TupleVal(<<StatusCodeVal(CREATED)>>, StrVal(TextOk)) } }

\* A value is about to be converted.
InitConv ==
    /\ RouterInit
    /\ HandlerIdle
    /\ DispatchIdle
    /\ SingleIdle
    /\ MergeIdle
    /\ OrderIdle
    /\ cval \in { Some(v) : v \in LeafValues \cup TupleValues }
    /\ cpc = "start"
    /\ cidx = 0
    /\ cparts = NoneOpt
    /\ cbody = NoneOpt
    /\ ctrace = <<>>
    /\ cres = NoneOpt

\* Mutant of AfterResponsePart: an Err does not return.
AfterResponsePartIgnoreErr(ok, i, n) == IF i < n THEN "parts" ELSE "assemble"

\* Where the tuple conversion goes after the i-th of n part contributors:
\* return on Err, else the next contributor, else Response::from_parts.
AfterResponsePart(ok, i, n) ==
    IF ~ok THEN "done"
    ELSE IF i < n THEN "parts"
    ELSE "assemble"

\* into_response of a value that is not a tuple.
CIntoResponseLeaf ==
    /\ cpc = "start"
    /\ cval[1].t # "Tuple"
    /\ ctrace' = Append(ctrace, <<"final", 0>>)
    /\ cres' = Some(IntoResponse(cval[1]))
    /\ cpc' = "done"
    /\ UNCHANGED <<cval, cidx, cparts, cbody>>
    /\ UNCHANGED routerVars
    /\ UNCHANGED handlerVars
    /\ UNCHANGED dispatchVars
    /\ UNCHANGED singleVars
    /\ UNCHANGED mergeVars
    /\ UNCHANGED orderVars

\* let res = res.into_response(); let (parts, body) = res.into_parts();
CIntoResponseFinal ==
    /\ cpc = "start"
    /\ cval[1].t = "Tuple"
    /\ LET res == IntoResponse(cval[1].last)
       IN /\ cparts' = Some([status |-> res.status, headers |-> res.headers])
          /\ cbody' = Some(res.body)
    /\ ctrace' = Append(ctrace, <<"final", 0>>)
    /\ cidx' = 1
    /\ cpc' = "parts"
    /\ UNCHANGED <<cval, cres>>
    /\ UNCHANGED routerVars
    /\ UNCHANGED handlerVars
    /\ UNCHANGED dispatchVars
    /\ UNCHANGED singleVars
    /\ UNCHANGED mergeVars
    /\ UNCHANGED orderVars

\* let parts = match $ty.into_response_parts(parts) { Ok(parts) => parts,
\*     Err(err) => { return err.into_response(); } };
CApplyPart ==
    /\ cpc = "parts"
    /\ LET r == IntoResponseParts(cval[1].parts[cidx], cparts[1])
       IN /\ cpc' = AfterResponsePart(r.ok, cidx, Len(cval[1].parts))
          /\ IF r.ok
             THEN /\ cparts' = Some(r.parts)
                  /\ cres' = cres
             ELSE /\ cparts' = cparts
                  /\ cres' = Some(IntoResponse(r.err))
    /\ ctrace' = Append(ctrace, <<"part", cidx>>)
    /\ cidx' = cidx + 1
    /\ UNCHANGED <<cval, cbody>>
    /\ UNCHANGED routerVars
    /\ UNCHANGED handlerVars
    /\ UNCHANGED dispatchVars
    /\ UNCHANGED singleVars
    /\ UNCHANGED mergeVars
    /\ UNCHANGED orderVars

\* Response::from_parts(parts, body)
CFromParts ==
    /\ cpc = "assemble"
    /\ cres' = Some([status |-> cparts[1].status, headers |-> cparts[1].headers,
                     body |-> cbody[1]])
    /\ ctrace' = Append(ctrace, <<"assemble", 0>>)
    /\ cpc' = "done"
    /\ UNCHANGED <<cval, cidx, cparts, cbody>>
    /\ UNCHANGED routerVars
    /\ UNCHANGED handlerVars
    /\ UNCHANGED dispatchVars
    /\ UNCHANGED singleVars
    /\ UNCHANGED mergeVars
    /\ UNCHANGED orderVars

NextConv ==
    \/ CIntoResponseLeaf
    \/ CIntoResponseFinal
    \/ CApplyPart
    \/ CFromParts

SpecConv == InitConv /\ [][NextConv]_vars

\* The step-by-step conversion returns what IntoResponse computes.
IntoResponseAgrees == cpc = "done" => cres = Some(IntoResponse(cval[1]))

\* ------------------------------------------------------------------------
\* Concurrent dispatch, step by step (router.rs, impl Service for Router)
\* ------------------------------------------------------------------------

\* Requests dispatched concurrently on one router.
NumRequests == 2

\* get(hello_world).post(hello_post) routed at /users/:id.
RouterA ==
    RouteResult(<<>>, <<"users", ":id">>, ChainMethod(MethodFn("get", 1), "post", 2)).router

\* RouterA with put(put_hello_world).any(any_hello) routed at /x.
RouterB == RouteResult(RouterA, <<"x">>, ChainAny(MethodFn("put", 3), 4)).router

\* The routers requests are dispatched on.
BuiltRouters == {RouterA, RouterB}

\* The requests dispatched: paths with different captures and a path only
\* RouterB serves, a method with a field of its own and one without, a body
\* that decodes and one that does not.
DispatchRequests ==
    { NewRequest("GET", <<"users", "7">>, {}, BodyHi),
      NewRequest("GET", <<"users", "42">>, {}, BodyHi),
      NewRequest("GET", <<"users", "42">>, {}, BodyInvalid),
      NewRequest("PURGE", <<"users", "7">>, {}, BodyHi),
      NewRequest("GET", <<"x">>, {}, BodyHi),
      NewRequest("PURGE", <<"x">>, {}, BodyInvalid) }

\* A Router::call invocation that has not started.
NewCall(req) ==
    [req |-> req, pc |-> "at", pattern |-> <<>>, params |-> NoneOpt, slot |-> None,
     handler |-> NoHandler, result |-> NoneOpt, invoked |-> <<>>]

\* A router has been built and serves requests as they arrive.
InitDispatch ==
    /\ router \in BuiltRouters
    /\ pending = NoneOpt
    /\ nregs = IF router = RouterA THEN 2 ELSE 4
    /\ status = "ok"
    /\ diagnostic = NoneOpt
    /\ lastOp = Op("new", <<>>, None, NoHandler, NoneOpt, NoneOpt, NoneOpt)
    /\ response = NoneOpt
    /\ invoked = <<>>
    /\ HandlerIdle
    /\ ConvIdle
    /\ SingleIdle
    /\ MergeIdle
    /\ OrderIdle
    /\ calls = <<>>

\* Ok(response): what Router::call returns.
OkResult(res) == [ok |-> TRUE, response |-> Some(res)]

\* Mutant of MethodNotAllowed: the arm returns the dispatch error.
MethodNotAllowedErr == [ok |-> FALSE, response |-> NoneOpt]

\* _ => Ok(StatusCode::METHOD_NOT_ALLOWED.into_response())
MethodNotAllowed == OkResult(IntoResponse(StatusCodeVal(METHOD_NOT_ALLOWED)))

\* Err(_) => Ok(StatusCode::NOT_FOUND.into_response())
NotFound == OkResult(IntoResponse(StatusCodeVal(NOT_FOUND)))

\* Ok(route.$method.clone().unwrap().svc.call(req)?): HandlerService::call
\* always returns Ok, so the ? never returns early.
SvcResult(h, req) == OkResult(SvcCall(h, req).res)

\* The requests a handler can be called with: a dispatched request with
\* captured parameters attached.
AttachedRequests ==
    { [r EXCEPT !.extensions = Some(ps)] :
        r \in DispatchRequests,
        ps \in { <<>>, << <<"id", "7">> >>, << <<"id", "42">> >> } }

\* SvcResult as a function of the handler and the request.
SvcResults == [h \in 1..4, r \in AttachedRequests |-> SvcResult(h, r)]

\* Mutant of AttachParams: the parameters are stored where every invocation
\* in flight reads them.
AttachParamsShared(cs, i, params) ==
    [j \in DOMAIN cs |-> [cs[j] EXCEPT !.req.extensions = Some(params)]]

\* req.extensions_mut().insert(params): the invocation's own request gets
\* the parameters.
AttachParams(cs, i, params) == [cs EXCEPT ![i].req.extensions = Some(params)]

\* The field the match on *req.method() reads: the method's field when it is
\* Some, else the fallback when it is Some, else none.
SelectSlot(route, method) ==
    IF method \in Methods /\ route[SlotOf(method)] # NoHandler THEN SlotOf(method)
    ELSE IF route["fallback"] # NoHandler THEN "fallback"
    ELSE None

\* Mutant of CloneRoute: the stored handler is moved out of its field.
TakeRoute(rt, pattern, slot) ==
    [handler |-> rt[pattern][slot], router |-> [rt EXCEPT ![pattern][slot] = NoHandler]]

\* route.$method.clone().unwrap(): the invocation gets a clone of the stored
\* handler and the field keeps its handler: [handler, router].
CloneRoute(rt, pattern, slot) == [handler |-> rt[pattern][slot], router |-> rt]

\* The transport calls Router::call with a request, while earlier calls
\* may still be running.
DArrive(req) ==
    /\ Len(calls) < NumRequests
    /\ calls' = Append(calls, NewCall(req))
    /\ UNCHANGED routerVars
    /\ UNCHANGED handlerVars
    /\ UNCHANGED convVars
    /\ UNCHANGED singleVars
    /\ UNCHANGED mergeVars
    /\ UNCHANGED orderVars

\* match self.router.at(req.uri().path())
DAt(i) ==
    /\ calls[i].pc = "at"
    /\ LET m == At(router, calls[i].req.path)
       IN calls' =
            IF m.ok
            THEN [calls EXCEPT ![i].pattern = m.pattern, ![i].params = Some(m.params),
                               ![i].pc = "params"]
            ELSE [calls EXCEPT ![i].result = Some(NotFound), ![i].pc = "done"]
    /\ UNCHANGED routerVars
    /\ UNCHANGED handlerVars
    /\ UNCHANGED convVars
    /\ UNCHANGED singleVars
    /\ UNCHANGED mergeVars
    /\ UNCHANGED orderVars

\* let params = ...collect(); req.extensions_mut().insert(params);
DParams(i) ==
    /\ calls[i].pc = "params"
    /\ calls' = [AttachParams(calls, i, calls[i].params[1]) EXCEPT ![i].pc = "select"]
    /\ UNCHANGED routerVars
    /\ UNCHANGED handlerVars
    /\ UNCHANGED convVars
    /\ UNCHANGED singleVars
    /\ UNCHANGED mergeVars
    /\ UNCHANGED orderVars

\* match *req.method() { Method::GET if route.get.is_some() =>
\*     route.get.clone().unwrap() ... _ => Ok(405) }
DSelect(i) ==
    /\ calls[i].pc = "select"
    /\ LET slot == SelectSlot(router[calls[i].pattern], calls[i].req.method)
       IN IF slot # None
          THEN LET c == CloneRoute(router, calls[i].pattern, slot)
               IN /\ router' = c.router
                  /\ calls' = [calls EXCEPT ![i].slot = slot, ![i].handler = c.handler,
                                            ![i].pc = "call"]
          ELSE /\ router' = router
               /\ calls' = [calls EXCEPT ![i].result = Some(MethodNotAllowed),
                                         ![i].pc = "done"]
    /\ UNCHANGED <<pending, nregs, status, diagnostic, lastOp, response, invoked>>
    /\ UNCHANGED handlerVars
    /\ UNCHANGED convVars
    /\ UNCHANGED singleVars
    /\ UNCHANGED mergeVars
    /\ UNCHANGED orderVars

\* Ok(....svc.call(req)?)
DSvcCall(i) ==
    /\ calls[i].pc = "call"
    /\ calls' = [calls EXCEPT
                   ![i].result = Some(SvcResults[calls[i].handler, calls[i].req]),
                   ![i].invoked = << [handler |-> calls[i].handler, req |-> calls[i].req] >>,
                   ![i].pc = "done"]
    /\ UNCHANGED routerVars
    /\ UNCHANGED handlerVars
    /\ UNCHANGED convVars
    /\ UNCHANGED singleVars
    /\ UNCHANGED mergeVars
    /\ UNCHANGED orderVars

\* A step of some Router::call in flight.
DispatchStep ==
    \/ \E i \in DOMAIN calls : DAt(i)
    \/ \E i \in DOMAIN calls : DParams(i)
    \/ \E i \in DOMAIN calls : DSelect(i)
    \/ \E i \in DOMAIN calls : DSvcCall(i)

NextDispatch ==
    \/ \E req \in DispatchRequests : DArrive(req)
    \/ DispatchStep

SpecDispatch == InitDispatch /\ [][NextDispatch]_vars

\* Every invocation runs on its own thread and never waits: while some
\* invocation can take a step, a step is eventually taken.  Arrivals are up
\* to the transport and not forced.
SpecDispatchFair == SpecDispatch /\ WF_vars(DispatchStep)

\* ------------------------------------------------------------------------
\* Properties of routing (checked under Spec)
\* ------------------------------------------------------------------------

\* The field each method is served from, as the specification lists them.
MethodField ==
    [GET |-> "get", POST |-> "post", PUT |-> "put", PATCH |-> "patch", DELETE |-> "delete",
     HEAD |-> "head", OPTIONS |-> "options", TRACE |-> "trace", CONNECT |-> "connect"]

\* The most recent operation was a dispatch / a Router::route call / a
\* chained builder call.
Called == lastOp.op = "call"
Routed == lastOp.op = "route"
Chained == lastOp.op = "chain"

\* The request of the most recent dispatch.
LastReq == lastOp.req[1]

\* The router before the most recent Router::route call and the MethodRouter
\* that call was given.
Before == lastOp.before[1]
Incoming == lastOp.incoming[1]

\* The most recent dispatch invoked handler h, once, and no other handler.
InvokedOnly(h) == Len(invoked) = 1 /\ invoked[1].handler = h

\* Some registered pattern matches the path.
SomeMatch(rt, path) == \E p \in DOMAIN rt : Matches(p, path)

\* The fields set in a MethodRouter.
Defined(mr) == {s \in Slots : mr[s] # NoHandler}

\* C1: a dispatch whose path resolves to an entry, with one of the nine
\* methods, invokes the handler of the method's field when it is set, else the
\* fallback handler when that is set, else returns 405 and invokes nothing; a
\* set method field wins over the fallback.
C1_MethodDispatch ==
    Called =>
        LET m == At(router, LastReq.path)
        IN (m.ok /\ LastReq.method \in Methods) =>
              LET entry == router[m.pattern]
                  exact == entry[MethodField[LastReq.method]]
                  fb == entry["fallback"]
              IN /\ exact # NoHandler => InvokedOnly(exact)
                 /\ (exact = NoHandler /\ fb # NoHandler) => InvokedOnly(fb)
                 /\ (exact = NoHandler /\ fb = NoHandler) =>
                        /\ invoked = <<>>
                        /\ response # NoneOpt
                        /\ response[1].status = METHOD_NOT_ALLOWED

\* C1 witness: a dispatch on an entry holding both the method's field and a
\* fallback reached the method's handler, not the fallback.
C1_Witness ==
    /\ Called
    /\ LastReq.method \in Methods
    /\ LET m == At(router, LastReq.path)
       IN /\ m.ok
          /\ router[m.pattern][MethodField[LastReq.method]] # NoHandler
          /\ router[m.pattern]["fallback"] # NoHandler
          /\ router[m.pattern]["fallback"] # router[m.pattern][MethodField[LastReq.method]]
          /\ InvokedOnly(router[m.pattern][MethodField[LastReq.method]])

\* C2: a dispatch whose path matches no registered pattern returns 404 and
\* invokes no handler, whatever the method and the registered fallbacks.
C2_UnmatchedPath ==
    (Called /\ ~SomeMatch(router, LastReq.path)) =>
        /\ invoked = <<>>
        /\ response = Some([status |-> NOT_FOUND, headers |-> {}, body |-> <<>>])

\* C2 witness: a dispatch of an unmatched path on a router that holds a
\* fallback for another path returned 404.
C2_Witness ==
    /\ Called
    /\ ~SomeMatch(router, LastReq.path)
    /\ \E p \in DOMAIN router : router[p]["fallback"] # NoHandler
    /\ response # NoneOpt
    /\ response[1].status = NOT_FOUND

\* The router of the example: GET /x registered, then POST /x.
GetThenPostX ==
    [p \in {<<"x">>} |-> [DefaultMethodRouter EXCEPT !["get"] = 1, !["post"] = 2]]

\* C3: Router::route for a pattern that has an entry, with a MethodRouter
\* defining only fields the entry lacks, succeeds and leaves the entry with
\* every field of both, each existing field keeping its handler; after GET /x
\* then POST /x, GET /x and POST /x reach their own handlers, PUT /x yields 405
\* and an unregistered path yields 404.
C3_MergeAdoptsDisjoint ==
    /\ (/\ Routed
        /\ lastOp.path \in DOMAIN Before
        /\ Defined(Before[lastOp.path]) \cap Defined(Incoming) = {}) =>
           /\ status = "ok"
           /\ \A s \in Slots :
                 router[lastOp.path][s] =
                     IF Before[lastOp.path][s] # NoHandler THEN Before[lastOp.path][s]
                     ELSE Incoming[s]
    /\ (Called /\ router = GetThenPostX) =>
           /\ (LastReq.path = <<"x">> /\ LastReq.method = "GET") => InvokedOnly(1)
           /\ (LastReq.path = <<"x">> /\ LastReq.method = "POST") => InvokedOnly(2)
           /\ (LastReq.path = <<"x">> /\ LastReq.method = "PUT") =>
                  invoked = <<>> /\ response[1].status = METHOD_NOT_ALLOWED
           /\ LastReq.path # <<"x">> =>
                  invoked = <<>> /\ response[1].status = NOT_FOUND

\* C3 witness: POST /x was routed after GET /x and the entry serves both.
C3_Witness ==
    /\ Routed
    /\ lastOp.path = <<"x">>
    /\ <<"x">> \in DOMAIN Before
    /\ Defined(Before[<<"x">>]) = {"get"}
    /\ Defined(Incoming) = {"post"}
    /\ router = GetThenPostX

\* C4: Router::route for a pattern that has an entry, with a MethodRouter
\* defining a field (one of the nine methods or the fallback) the entry
\* defines too, panics: construction ends with a configuration error and no
\* router.
C4_ConflictIsFatal ==
    (/\ Routed
     /\ lastOp.path \in DOMAIN Before
     /\ Defined(Before[lastOp.path]) \cap Defined(Incoming) # {}) =>
        /\ status = "panicked"
        /\ diagnostic # NoneOpt

\* C4 witness: a second fallback for a pattern whose entry holds a fallback
\* ended construction.
C4_Witness ==
    /\ Routed
    /\ lastOp.path \in DOMAIN Before
    /\ Before[lastOp.path]["fallback"] # NoHandler
    /\ Incoming["fallback"] # NoHandler
    /\ status = "panicked"

\* C5: once a field of a MethodRouter (under construction or stored in the
\* router) holds a handler, no registration operation that completes without
\* a configuration error leaves that field holding another handler.
C5_NoSilentOverwrite ==
    /\ (Chained /\ status = "ok") =>
           \A s \in Defined(lastOp.before[1]) : pending[1][s] = lastOp.before[1][s]
    /\ (Routed /\ status = "ok") =>
           \A p \in DOMAIN Before : \A s \in Defined(Before[p]) : router[p][s] = Before[p][s]

\* C6: the configuration error of a merge conflict names a conflicting field
\* and the pattern being routed.
C6_ConflictDiagnostic ==
    (/\ Routed
     /\ status = "panicked"
     /\ lastOp.path \in DOMAIN Before
     /\ Defined(Before[lastOp.path]) \cap Defined(Incoming) # {}) =>
        /\ diagnostic # NoneOpt
        /\ diagnostic[1].slot \in Defined(Before[lastOp.path]) \cap Defined(Incoming)
        /\ diagnostic[1].path = lastOp.path

\* C7: Router::route for a pattern that was not registered before (and that
\* the matcher accepts) inserts an entry holding the given MethodRouter and
\* leaves the entry of every other pattern as it was.
C7_InsertOrMergeByPattern ==
    (/\ Routed
     /\ lastOp.path \notin DOMAIN Before
     /\ ~InsertConflict(Before, lastOp.path)) =>
        /\ status = "ok"
        /\ DOMAIN router = DOMAIN Before \cup {lastOp.path}
        /\ router[lastOp.path] = Incoming
        /\ \A q \in DOMAIN Before : router[q] = Before[q]

\* The capture segments of a pattern.
Captures(p) == {i \in 1..Len(p) : IsParam(p[i])}

\* The most recent dispatch handed its handler the dispatched request, with
\* the captures of pattern p attached in segment order.
CarriesParams(p) ==
    /\ Len(invoked) = 1
    /\ invoked[1].req.method = LastReq.method
    /\ invoked[1].req.path = LastReq.path
    /\ invoked[1].req.headers = LastReq.headers
    /\ invoked[1].req.body = LastReq.body
    /\ invoked[1].req.extensions # NoneOpt
    /\ LET params == invoked[1].req.extensions[1]
       IN /\ Len(params) = Cardinality(Captures(p))
          /\ \A i \in Captures(p) :
                params[Cardinality({j \in Captures(p) : j <= i})]
                    = <<ParamName(p[i]), LastReq.path[i]>>

\* The matcher resolves the path to pattern p: p matches, and is literal at
\* the first segment where it differs in kind from any other matching pattern.
ResolvesTo(rt, path, p) ==
    /\ Matches(p, path)
    /\ \A q \in DOMAIN rt \ {p} : Matches(q, path) => Prefers(p, q)

\* C8 as stated: for every registered (pattern, method) pair, a dispatch with
\* that method and a path matching the pattern invokes the pair's handler once
\* and no other, with the captured parameters.
C8_Original ==
    Called =>
        \A p \in DOMAIN router : \A m \in Methods :
            (/\ router[p][MethodField[m]] # NoHandler
             /\ LastReq.method = m
             /\ Matches(p, LastReq.path)) =>
                /\ InvokedOnly(router[p][MethodField[m]])
                /\ CarriesParams(p)

\* C8 as amended: for every registered (pattern, method) pair, a dispatch with
\* that method and a path the matcher resolves to the pattern invokes the
\* pair's handler once and no other, with the captured parameters.
C8_ExactlyOnce ==
    Called =>
        \A p \in DOMAIN router : \A m \in Methods :
            (/\ router[p][MethodField[m]] # NoHandler
             /\ LastReq.method = m
             /\ ResolvesTo(router, LastReq.path, p)) =>
                /\ InvokedOnly(router[p][MethodField[m]])
                /\ CarriesParams(p)

\* C8 witness: a dispatch resolved to the two-capture pattern and its handler
\* received both captures in order.
C8_Witness ==
    /\ Called
    /\ LastReq.path = <<"users", "7", "9">>
    /\ LastReq.method \in Methods
    /\ <<"users", ":name", ":id">> \in DOMAIN router
    /\ router[<<"users", ":name", ":id">>][MethodField[LastReq.method]] # NoHandler
    /\ Len(invoked) = 1
    /\ invoked[1].req.extensions = Some(<< <<"name", "7">>, <<"id", "9">> >>)

\* ------------------------------------------------------------------------
\* Properties of the handler adapter (checked under SpecHandler)
\* ------------------------------------------------------------------------

\* The events of a complete call of a function of n >= 1 parameters.
ExpectedTrace(n) ==
    [k \in 1..(n + 1) |->
        IF k < n THEN <<"part", k>> ELSE IF k = n THEN <<"full", n>> ELSE <<"fn", 0>>]

\* s is an initial segment of t.
IsPrefix(s, t) == Len(s) <= Len(t) /\ \A k \in 1..Len(s) : s[k] = t[k]

\* The user function has been called.
FnCalled == \E k \in 1..Len(htrace) : htrace[k][1] = "fn"

\* The outcome of extracting the i-th parameter from the request of the call:
\* a part extraction for every parameter but the last.
Extraction(i) ==
    IF i < Arity
    THEN FromRequestParts(FnParams(hfn)[i], IntoParts(hreq[1]))
    ELSE FromRequest(FnParams(hfn)[i], IntoParts(hreq[1]), hreq[1].body)

\* C9: in a call with N >= 2 parameters the part extractions of P1..P(N-1)
\* run in declaration order before the full-request extraction of PN, the
\* body is read at most once and only by the extraction of PN, and the
\* function is called only after all N extractions have succeeded.
C9_ExtractionOrdering ==
    Arity >= 2 =>
        /\ IsPrefix(htrace, ExpectedTrace(Arity))
        /\ Len(hreads) <= 1
        /\ \A k \in 1..Len(hreads) :
              /\ hreads[k] = Arity
              /\ \E j \in 1..Len(htrace) : htrace[j] = <<"full", Arity>>
        /\ FnCalled =>
              /\ Len(hargs) = Arity
              /\ \A i \in 1..Arity : Extraction(i).ok /\ hargs[i] = Extraction(i).val

\* C9 witness: a three-parameter call completed: both parts extracted, the
\* body read by the third extraction, then the function called.
C9_Witness ==
    /\ hpc = "done"
    /\ Arity = 3
    /\ htrace = << <<"part", 1>>, <<"part", 2>>, <<"full", 3>>, <<"fn", 0>> >>
    /\ hreads = <<3>>

\* The outcome of extracting the j-th element of the tuple-typed i-th
\* parameter on its own.
ElemExtraction(i, j) ==
    LET tys == TupleElems(FnParams(hfn)[i])
    IN IF j < Len(tys)
       THEN FromRequestParts(tys[j], IntoParts(hreq[1]))
       ELSE FromRequestLeaf(tys[j], IntoParts(hreq[1]), hreq[1].body)

\* C10: when the extraction of Pi fails, no extraction of a later parameter
\* runs, the function is never called, and the response returned is the
\* conversion of that failure value; inside a tuple-typed parameter, the
\* first failing element decides the response and a failing part element
\* leaves the body unread.
C10_ExtractionShortCircuit ==
    \A i \in 1..Arity :
        (~Extraction(i).ok /\ \A j \in 1..(i - 1) : Extraction(j).ok) =>
            /\ \A k \in 1..Len(htrace) : htrace[k][1] \in {"part", "full"} /\ htrace[k][2] <= i
            /\ hres # NoneOpt => hres = Some(IntoResponse(Extraction(i).rejection))
            /\ hpc = "done" => hres # NoneOpt
            /\ (hpc = "done" /\ i = Arity /\ FnParams(hfn)[i] \in TupleTypes) =>
                  \A j \in 1..Len(TupleElems(FnParams(hfn)[i])) :
                      (~ElemExtraction(i, j).ok /\ \A k \in 1..(j - 1) : ElemExtraction(i, k).ok) =>
                          /\ hres = Some(IntoResponse(ElemExtraction(i, j).rejection))
                          /\ j < Len(TupleElems(FnParams(hfn)[i])) => hreads = <<>>

\* C10 witness: the first of three extractions failed on a request whose body
\* the third would have rejected too; the call returned the first failure's
\* response after that single extraction.
C10_Witness ==
    /\ hpc = "done"
    /\ Arity = 3
    /\ ~Extraction(1).ok
    /\ ~Extraction(3).ok
    /\ htrace = << <<"part", 1>> >>
    /\ hreads = <<>>
    /\ hres = Some([status |-> UNAUTHORIZED, headers |-> {}, body |-> <<>>])

\* The built-in part extractors.
BuiltinParts == {"Method", "HeaderMap"}

\* The function being adapted takes built-in part extractors followed by a
\* String.
PartsThenString ==
    /\ Arity >= 1
    /\ FnParams(hfn)[Arity] = "String"
    /\ \A i \in 1..(Arity - 1) : FnParams(hfn)[i] \in BuiltinParts

\* C11: for a function taking built-in part extractors followed by a String,
\* the part extractions leave the parts and the body of the request as they
\* were and read nothing; every Method argument is the request's method,
\* every HeaderMap argument the request's headers, and the String argument
\* is the text whose UTF-8 bytes are exactly the request's body.  Method PUT
\* with body "hi" gives (PUT, "hi").
C11_BodyIntegrity ==
    PartsThenString =>
        /\ hpc \in {"parts", "last"} =>
              /\ hparts = Some(IntoParts(hreq[1]))
              /\ hbody = Some(hreq[1].body)
              /\ hreads = <<>>
        /\ FnCalled =>
              /\ Len(hargs) = Arity
              /\ hargs[Arity].t = "String"
              /\ Utf8Encode(hargs[Arity].chars) = hreq[1].body.bytes
              /\ \A i \in 1..(Arity - 1) :
                    /\ FnParams(hfn)[i] = "Method" =>
                          hargs[i] = [t |-> "Method", m |-> hreq[1].method]
                    /\ FnParams(hfn)[i] = "HeaderMap" =>
                          hargs[i] = [t |-> "HeaderMap", h |-> hreq[1].headers]
        /\ (FnCalled /\ FnParams(hfn) = <<"Method", "String">>
               /\ hreq[1].method = "PUT" /\ hreq[1].body = BodyHi) =>
              hargs = << [t |-> "Method", m |-> "PUT"], StringVal(TextHi) >>

\* C11 witness: a (Method, String) function was called for a PUT request
\* with body "hi" and received (PUT, "hi").
C11_Witness ==
    /\ hpc = "done"
    /\ FnParams(hfn) = <<"Method", "String">>
    /\ hreq[1].method = "PUT"
    /\ hreq[1].body = BodyHi
    /\ FnCalled
    /\ hargs = << [t |-> "Method", m |-> "PUT"], StringVal(TextHi) >>

\* The body cannot be read, or its bytes are not UTF-8.
StringFails(body) == body.io_error \/ ~Utf8Decode(body.bytes).ok

\* The call gets as far as extracting a String: every parameter before the
\* last is extracted, and the last is a String or a tuple whose part elements
\* are extracted and whose last element is a String.
ReachesString ==
    /\ Arity >= 1
    /\ \A i \in 1..(Arity - 1) : Extraction(i).ok
    /\ \/ FnParams(hfn)[Arity] = "String"
       \/ /\ FnParams(hfn)[Arity] \in TupleTypes
          /\ LET tys == TupleElems(FnParams(hfn)[Arity])
             IN /\ tys[Len(tys)] = "String"
                /\ \A j \in 1..(Len(tys) - 1) : ElemExtraction(Arity, j).ok

\* C12: when a call reaches the extraction of a String and the body cannot
\* be read or is not UTF-8, the call returns status 500 with the body
\* "error reading body", the same in both cases, and the function is never
\* called.
C12_StringBodyFailure ==
    (ReachesString /\ StringFails(hreq[1].body)) =>
        /\ ~FnCalled
        /\ hpc # "fn"
        /\ hpc = "done" =>
              hres = Some([status |-> INTERNAL_SERVER_ERROR, headers |-> {},
                           body |-> Utf8Encode(TextErrorReadingBody)])

\* C12 witness: a (Method, String) function was dispatched with a body that
\* is not UTF-8 and the call ended with status 500 without calling it.
C12_Witness ==
    /\ hpc = "done"
    /\ FnParams(hfn) = <<"Method", "String">>
    /\ hreq[1].body = BodyInvalid
    /\ hres # NoneOpt
    /\ hres[1].status = INTERNAL_SERVER_ERROR
    /\ ~FnCalled

\* C20: a function of no parameters is called without any extraction and
\* without a read of the body, so its call always ends in its converted
\* result; a function of one parameter has that parameter extracted as the
\* full-request extraction, and when the parameter is a built-in part
\* extractor the body is dropped unread and the function is always called.
C20_LowArity ==
    /\ Arity = 0 =>
          /\ IsPrefix(htrace, << <<"fn", 0>> >>)
          /\ hreads = <<>>
          /\ hpc = "done" => hres = Some(IntoResponse(CallFn(hfn, <<>>)))
    /\ Arity = 1 =>
          /\ IsPrefix(htrace, << <<"full", 1>>, <<"fn", 0>> >>)
          /\ FnParams(hfn)[1] \in BuiltinParts =>
                /\ hreads = <<>>
                /\ hpc \in {"fn", "done"} => hbody = NoneOpt
                /\ hpc = "done" =>
                      /\ FnCalled
                      /\ hargs = << FromRequestParts(FnParams(hfn)[1], IntoParts(hreq[1])).val >>
                      /\ hres = Some(IntoResponse(CallFn(hfn, hargs)))

\* C20 witness: a one-parameter function taking a Method was called on a
\* request whose body stream fails when read.
C20_Witness ==
    /\ hpc = "done"
    /\ FnParams(hfn) = <<"Method">>
    /\ hreq[1].body.io_error
    /\ FnCalled
    /\ hreads = <<>>

\* ------------------------------------------------------------------------
\* Properties of response conversion (checked under SpecConv)
\* ------------------------------------------------------------------------

\* The value being converted is a tuple; its part contributors and its final
\* element.
IsTuple == cval[1].t = "Tuple"
CParts == cval[1].parts
CFinal == cval[1].last

\* The part contributor succeeds.
PartOk(v) == v.t = "StatusCode" \/ v.ok

\* Every part contributor of the tuple succeeds.
AllPartsOk == \A i \in 1..Len(CParts) : PartOk(CParts[i])

\* The i-th part contributor is the first that fails.
FirstFailing(i) == ~PartOk(CParts[i]) /\ \A j \in 1..(i - 1) : PartOk(CParts[j])

\* The events of a tuple conversion that applies its first k contributors.
ConvTrace(k) == << <<"final", 0>> >> \o [i \in 1..k |-> <<"part", i>>]

\* The positions of the contributors of type t, and the greatest of a
\* non-empty set of positions.
PartsOfType(t) == { i \in 1..Len(CParts) : CParts[i].t = t }
Rightmost(S) == CHOOSE i \in S : \A j \in S : j <= i

\* C13: a tuple (part1, ..., partK, final) whose parts all succeed is
\* converted by converting final first and then applying part1..partK in
\* order to its status and headers: the body is final's, the status is that
\* of the rightmost StatusCode part, a StatusCode part leaves the headers
\* alone, and (CREATED, "ok") gives 201, text/plain;charset=utf-8, "ok".
C13_CompositeConversion ==
    (cval # NoneOpt /\ IsTuple /\ AllPartsOk) =>
        /\ IsPrefix(ctrace, ConvTrace(Len(CParts)) \o << <<"assemble", 0>> >>)
        /\ cpc = "done" =>
              LET final == IntoResponse(CFinal)
                  codes == PartsOfType("StatusCode")
                  tags == PartsOfType("TagResult")
              IN /\ cres # NoneOpt
                 /\ cres[1].body = final.body
                 /\ cres[1].status =
                       IF codes = {} THEN final.status ELSE CParts[Rightmost(codes)].code
                 /\ cres[1].headers =
                       IF tags = {} THEN final.headers
                       ELSE HeaderInsert(final.headers, "x-tag", CParts[Rightmost(tags)].value)
        /\ (cpc = "done" /\ cval = Some(TupleVal(<<StatusCodeVal(CREATED)>>, StrVal(TextOk)))) =>
              cres = Some([status |-> CREATED,
                           headers |-> {<<"content-type", "text/plain;charset=utf-8">>},
                           body |-> TextOk])

\* C13 witness: (NOT_FOUND, CREATED, "ok") was converted to status 201 with
\* the text headers and body of "ok".
C13_Witness ==
    /\ cpc = "done"
    /\ cval = Some(TupleVal(<<StatusCodeVal(NOT_FOUND), StatusCodeVal(CREATED)>>, StrVal(TextOk)))
    /\ cres = Some([status |-> CREATED,
                    headers |-> {<<"content-type", "text/plain;charset=utf-8">>},
                    body |-> TextOk])

\* C14: when part i is the first part contributor of a tuple to fail, no
\* later contributor is applied, the response is never assembled, and the
\* result is the conversion of part i's failure value alone.
C14_PartShortCircuit ==
    (cval # NoneOpt /\ IsTuple) =>
        \A i \in 1..Len(CParts) :
            FirstFailing(i) =>
                /\ IsPrefix(ctrace, ConvTrace(i))
                /\ cpc = "done" =>
                      cres = Some([status |-> CParts[i].code, headers |-> {}, body |-> <<>>])

\* C14 witness: in (Err(401), CREATED, "ok") the first part failed and the
\* result is the bare 401 response, after one part application.
C14_Witness ==
    /\ cpc = "done"
    /\ cval = Some(TupleVal(<<TagErr(UNAUTHORIZED), StatusCodeVal(CREATED)>>, StrVal(TextOk)))
    /\ ctrace = ConvTrace(1)
    /\ cres = Some([status |-> UNAUTHORIZED, headers |-> {}, body |-> <<>>])

\* C18: a StatusCode converts to that status with no headers and an empty
\* body; a &str or String to 200, text/plain;charset=utf-8 and the UTF-8
\* bytes of the text; every byte buffer to 200, application/octet-stream and
\* the same bytes; a Response to itself; and converting the result of any
\* conversion again changes nothing.
C18_BuiltinConversions ==
    (cval # NoneOpt /\ cpc = "done") =>
        LET v == cval[1]
            r == cres[1]
        IN /\ v.t = "StatusCode" => r = [status |-> v.code, headers |-> {}, body |-> <<>>]
           /\ v.t \in {"Str", "String"} =>
                 /\ r.status = OK
                 /\ r.headers = {<<"content-type", "text/plain;charset=utf-8">>}
                 /\ Utf8Decode(r.body) = [ok |-> TRUE, chars |-> v.chars]
           /\ v.t \in ByteKinds =>
                 r = [status |-> OK,
                      headers |-> {<<"content-type", "application/octet-stream">>},
                      body |-> v.bytes]
           /\ v.t = "Response" => r = v.res
           /\ IntoResponse(ResponseVal(r)) = r

\* C18 witness: the array [0x68, 0xFF] was converted to a 200 response of
\* type application/octet-stream carrying the two bytes.
C18_Witness ==
    /\ cpc = "done"
    /\ cval = Some(BytesVal("Array", <<104, 255>>))
    /\ cres = Some([status |-> OK,
                    headers |-> {<<"content-type", "application/octet-stream">>},
                    body |-> <<104, 255>>])

\* ------------------------------------------------------------------------
\* Properties of the builder (checked under Spec)
\* ------------------------------------------------------------------------

\* The MethodRouter that get(h1).post(h2) builds, as the specification
\* describes it: GET served by h1, POST by h2, nothing else.
GetPost(h1, h2) ==
    [get |-> h1, post |-> h2, put |-> NoHandler, patch |-> NoHandler, delete |-> NoHandler,
     head |-> NoHandler, options |-> NoHandler, trace |-> NoHandler, connect |-> NoHandler,
     fallback |-> NoHandler]

\* C19: a free builder function returns a MethodRouter with exactly its own
\* field set (any sets only the fallback); a chained builder call sets its
\* own field and leaves every other field as it was; get(h1).post(h2) is the
\* MethodRouter with GET -> h1 and POST -> h2 alone, and once routed it
\* serves GET with h1, POST with h2 and nothing else.
C19_BuilderSlotFrame ==
    /\ lastOp.op = "free" =>
          /\ pending # NoneOpt
          /\ pending[1][lastOp.slot] = lastOp.handler
          /\ \A s \in Slots \ {lastOp.slot} : pending[1][s] = NoHandler
    /\ Chained =>
          /\ pending # NoneOpt
          /\ pending[1][lastOp.slot] = lastOp.handler
          /\ \A s \in Slots \ {lastOp.slot} : pending[1][s] = lastOp.before[1][s]
    /\ (Chained /\ lastOp.slot = "post" /\ nregs = 2
           /\ \A s \in Slots : lastOp.before[1][s] # NoHandler <=> s = "get") =>
          pending = Some(GetPost(1, 2))
    /\ (Routed /\ lastOp.incoming = Some(GetPost(1, 2)) /\ Before = <<>>) =>
          /\ status = "ok"
          /\ DOMAIN router = {lastOp.path}
          /\ router[lastOp.path] = GetPost(1, 2)
    /\ (Called /\ DOMAIN router = {<<"x">>} /\ router[<<"x">>] = GetPost(1, 2)
           /\ LastReq.path = <<"x">>) =>
          /\ LastReq.method = "GET" => InvokedOnly(1)
          /\ LastReq.method = "POST" => InvokedOnly(2)
          /\ LastReq.method \notin {"GET", "POST"} =>
                /\ invoked = <<>>
                /\ response = Some([status |-> METHOD_NOT_ALLOWED, headers |-> {},
                                    body |-> <<>>])

\* C19 witness: get(h1).post(h2) was routed at /x and a POST to /x reached h2.
C19_Witness ==
    /\ Called
    /\ DOMAIN router = {<<"x">>}
    /\ router[<<"x">>] = GetPost(1, 2)
    /\ LastReq.path = <<"x">>
    /\ LastReq.method = "POST"
    /\ InvokedOnly(2)

\* ------------------------------------------------------------------------
\* Properties of dispatch (checked under SpecDispatch, SpecDispatchFair)
\* ------------------------------------------------------------------------

\* The request invocation i was handed, before anything was attached to it.
OrigReq(i) == [calls[i].req EXCEPT !.extensions = NoneOpt]

\* Invocation i has returned.
Done(i) == calls[i].pc = "done"

\* The bare responses Router::call builds itself.
Bare(code) == [status |-> code, headers |-> {}, body |-> <<>>]

\* Invocation i returned Ok with one Response of the kind its request calls
\* for: 404 for an unmatched path, 405 for a matched path with no handler for
\* the method, else what the selected handler returns (an extraction-failure
\* response when an extraction is rejected, else the converted result).
Answered(i) ==
    /\ calls[i].result # NoneOpt
    /\ calls[i].result[1].ok
    /\ calls[i].result[1].response # NoneOpt
    /\ Len(calls[i].invoked) <= 1
    /\ LET res == calls[i].result[1].response[1]
           m == At(router, OrigReq(i).path)
       IN /\ DOMAIN res = {"status", "headers", "body"}
          /\ ~m.ok => res = Bare(NOT_FOUND) /\ calls[i].invoked = <<>>
          /\ m.ok =>
                LET h == SelectRoute(router[m.pattern], OrigReq(i).method)
                IN /\ h = NoHandler =>
                         res = Bare(METHOD_NOT_ALLOWED) /\ calls[i].invoked = <<>>
                   /\ h # NoHandler =>
                         /\ Len(calls[i].invoked) = 1
                         /\ LET hc == HandlerCall(RegisteredFn(h), calls[i].invoked[1].req)
                            IN /\ res = hc.res
                               /\ ~hc.called =>
                                     res.status = INTERNAL_SERVER_ERROR

\* C15: every dispatch on a built router returns, and returns Ok with
\* exactly one Response (404, 405, an extraction-failure response or the
\* converted handler result), never the dispatch error.
C15_EveryDispatchAnswered ==
    \A i \in 1..NumRequests :
        (i \in DOMAIN calls) ~> (i \in DOMAIN calls /\ Done(i) /\ Answered(i))

\* C15 witness: two dispatches have returned, one with 405 and one with the
\* response of a failed body extraction.
C15_Witness ==
    /\ Len(calls) = 2
    /\ \A i \in DOMAIN calls : Done(i) /\ Answered(i)
    /\ calls[1].result[1].response[1] = Bare(METHOD_NOT_ALLOWED)
    /\ calls[2].result[1].response[1].status = INTERNAL_SERVER_ERROR
    /\ calls[2].invoked # <<>>

\* C16: under every interleaving of the steps of the concurrent dispatches,
\* each dispatch returns the response, and invokes the handler with the
\* request (captured parameters and body), that Router::call gives for its
\* request alone; while in flight, a request carries no parameters but its
\* own.
C16_NonInterference ==
    \A i \in DOMAIN calls :
        LET alone == CallResult(router, OrigReq(i))
        IN /\ calls[i].req.extensions # NoneOpt =>
                 /\ calls[i].pc \in {"select", "call", "done"}
                 /\ calls[i].req.extensions = Some(At(router, OrigReq(i).path).params)
           /\ calls[i].req.body = OrigReq(i).body
           /\ Done(i) =>
                 /\ calls[i].result = Some(OkResult(alone.response))
                 /\ calls[i].invoked = alone.invoked

\* C16 witness: one dispatch has invoked its handler with the capture id = 7
\* while another, holding the capture id = 42 and a different body, is about
\* to invoke the same handler.
C16_Witness ==
    /\ Len(calls) = 2
    /\ Done(1)
    /\ calls[1].invoked # <<>>
    /\ calls[1].invoked[1].req.extensions = Some(<< <<"id", "7">> >>)
    /\ calls[1].invoked[1].req.body = BodyHi
    /\ calls[2].pc = "call"
    /\ calls[2].req.extensions = Some(<< <<"id", "42">> >>)
    /\ calls[2].req.body = BodyInvalid
    /\ calls[2].handler = calls[1].handler

\* C17: no step of any dispatch changes the router (its entries, their
\* method fields and fallbacks, the stored handlers), and two dispatches of
\* the same request, whatever ran in between, reach the same handler and
\* return the same response.
C17_RouterUnchanged ==
    /\ [][router' = router]_vars
    /\ [](\A i, j \in DOMAIN calls :
            (Done(i) /\ Done(j) /\ OrigReq(i) = OrigReq(j)) =>
                /\ calls[i].invoked = calls[j].invoked
                /\ calls[i].result = calls[j].result)

\* C17 witness: the same request was dispatched twice and both dispatches
\* invoked the handler stored in the GET field, which is still in place.
C17_Witness ==
    /\ Len(calls) = 2
    /\ Done(1) /\ Done(2)
    /\ OrigReq(1) = OrigReq(2)
    /\ calls[1].slot = "get"
    /\ calls[1].invoked # <<>>
    /\ calls[1].invoked = calls[2].invoked
    /\ router[calls[1].pattern]["get"] = calls[1].handler

\* ------------------------------------------------------------------------
\* The router of lib.rs: one Route per pattern, whatever the method
\* ------------------------------------------------------------------------

\* on(handler): a Route boxing the handler; the h-th call boxes the h-th
\* registered function.
On(h) == h

\* Mutant of SingleRouteResult: a pattern registered already takes the new
\* Route in place of the first.
SingleRouteResultReplace(rt, path, route) ==
    IF path \in DOMAIN rt
    THEN [router |-> [rt EXCEPT ![path] = route], panicked |-> FALSE,
          diagnostic |-> NoneOpt]
    ELSE IF InsertConflict(rt, path)
    THEN [router |-> rt, panicked |-> TRUE,
          diagnostic |-> Some(InsertPanic(ConflictsWith(rt, path)))]
    ELSE [router |-> [p \in DOMAIN rt \cup {path} |-> IF p = path THEN route ELSE rt[p]],
          panicked |-> FALSE, diagnostic |-> NoneOpt]

\* lib.rs Router::route(self, path, route): self.router.insert(path,
\* route).unwrap(), [router, panicked, diagnostic].
SingleRouteResult(rt, path, route) ==
    IF InsertConflict(rt, path)
    THEN [router |-> rt, panicked |-> TRUE,
          diagnostic |-> Some(InsertPanic(ConflictsWith(rt, path)))]
    ELSE [router |-> [p \in DOMAIN rt \cup {path} |-> IF p = path THEN route ELSE rt[p]],
          panicked |-> FALSE, diagnostic |-> NoneOpt]

\* Mutant of SingleCallResult: the Route answers GET only, any other method
\* gets 405.
SingleCallResultGetOnly(rt, req) ==
    LET m == At(rt, req.path)
    IN IF m.ok
       THEN IF req.method = "GET"
            THEN [result |-> OkResult(SvcCall(rt[m.pattern], req).res),
                  invoked |-> << [handler |-> rt[m.pattern], req |-> req] >>]
            ELSE [result |-> OkResult(IntoResponse(StatusCodeVal(METHOD_NOT_ALLOWED))),
                  invoked |-> <<>>]
       ELSE [result |-> OkResult(IntoResponse(StatusCodeVal(NOT_FOUND))), invoked |-> <<>>]

\* lib.rs Router::call(&self, request): the Route found for the path is
\* cloned and called with the request as it came; no match is 404:
\* [result, invoked].
SingleCallResult(rt, req) ==
    LET m == At(rt, req.path)
    IN IF m.ok
       THEN [result |-> OkResult(SvcCall(rt[m.pattern], req).res),
             invoked |-> << [handler |-> rt[m.pattern], req |-> req] >>]
       ELSE [result |-> OkResult(IntoResponse(StatusCodeVal(NOT_FOUND))), invoked |-> <<>>]

\* Request bodies dispatched on the lib.rs router.
SingleBodies == {BodyHi, BodyInvalid}

InitSingle ==
    /\ RouterInit
    /\ HandlerIdle
    /\ ConvIdle
    /\ DispatchIdle
    /\ SingleIdle
    /\ MergeIdle
    /\ OrderIdle

\* router.route(path, on(handler)).
SRoute(path) ==
    /\ sstatus = "ok"
    /\ snregs < MaxRegs
    /\ LET r == SingleRouteResult(srouter, path, On(snregs + 1))
       IN /\ srouter' = r.router
          /\ sstatus' = IF r.panicked THEN "panicked" ELSE "ok"
          /\ sdiagnostic' = r.diagnostic
    /\ snregs' = snregs + 1
    /\ slastOp' = SingleOp("route", path, snregs + 1, Some(srouter), NoneOpt)
    /\ sresponse' = NoneOpt
    /\ sinvoked' = <<>>
    /\ UNCHANGED routerVars
    /\ UNCHANGED handlerVars
    /\ UNCHANGED convVars
    /\ UNCHANGED dispatchVars
    /\ UNCHANGED mergeVars
    /\ UNCHANGED orderVars

\* One dispatch on the router built so far.  Router::call takes &self and
\* leaves the router as it is, so a dispatch is taken from the states
\* construction reaches.
SCall(method, path, body) ==
    /\ sstatus = "ok"
    /\ slastOp.op # "call"
    /\ LET req == NewRequest(method, path, {}, body)
           r == SingleCallResult(srouter, req)
       IN /\ sresponse' = Some(r.result)
          /\ sinvoked' = r.invoked
          /\ slastOp' = SingleOp("call", <<>>, NoHandler, Some(srouter), Some(req))
    /\ UNCHANGED <<srouter, snregs, sstatus, sdiagnostic>>
    /\ UNCHANGED routerVars
    /\ UNCHANGED handlerVars
    /\ UNCHANGED convVars
    /\ UNCHANGED dispatchVars
    /\ UNCHANGED mergeVars
    /\ UNCHANGED orderVars

NextSingle ==
    \/ \E path \in Patterns : SRoute(path)
    \/ \E method \in RequestMethods, path \in Paths, body \in SingleBodies :
          SCall(method, path, body)

SpecSingle == InitSingle /\ [][NextSingle]_vars

SCalled == slastOp.op = "call"
SRouted == slastOp.op = "route"
SBefore == slastOp.before[1]
SReq == slastOp.req[1]

\* C21 as stated: a dispatch whose path matches a registered pattern
\* invokes the handler registered at that pattern, once and whatever the
\* method, and answers with what it returns (never with a 405 of the
\* router's); a path no pattern matches is answered 404 with no handler
\* invoked; registering a pattern that is registered already panics and
\* leaves the first handler in place.
C21_Original ==
    /\ SCalled =>
          /\ \A p \in DOMAIN srouter :
                Matches(p, SReq.path) =>
                    /\ sinvoked = << [handler |-> srouter[p], req |-> SReq] >>
                    /\ sresponse = Some(OkResult(SvcCall(srouter[p], SReq).res))
          /\ (\A p \in DOMAIN srouter : ~Matches(p, SReq.path)) =>
                /\ sinvoked = <<>>
                /\ sresponse = Some(OkResult(IntoResponse(StatusCodeVal(NOT_FOUND))))
    /\ (SRouted /\ slastOp.path \in DOMAIN SBefore) =>
          /\ sstatus = "panicked"
          /\ srouter = SBefore

\* The pattern the matcher resolves the path to: the one that matches and
\* is preferred to every other registered pattern that matches.
Resolves(rt, p, path) ==
    /\ p \in DOMAIN rt
    /\ Matches(p, path)
    /\ \A q \in DOMAIN rt \ {p} : Matches(q, path) => Prefers(p, q)

\* C21 (amended): a dispatch whose path the matcher resolves to a registered
\* pattern (the pattern matches and no other matching pattern is preferred
\* for being literal where this one captures) invokes the handler registered
\* at that pattern, once and whatever the method, with the request as it
\* came, and answers with what it returns, so no 405 comes from the router;
\* a path no pattern matches is answered 404 with no handler invoked;
\* registering a pattern that is registered already panics and leaves the
\* first handler in place.
C21_SingleHandler ==
    /\ SCalled =>
          /\ \A p \in DOMAIN srouter :
                Resolves(srouter, p, SReq.path) =>
                    /\ sinvoked = << [handler |-> srouter[p], req |-> SReq] >>
                    /\ sresponse = Some(OkResult(SvcCall(srouter[p], SReq).res))
                    /\ sresponse[1].response[1].status # METHOD_NOT_ALLOWED
          /\ (\A p \in DOMAIN srouter : ~Matches(p, SReq.path)) =>
                /\ sinvoked = <<>>
                /\ sresponse = Some(OkResult(IntoResponse(StatusCodeVal(NOT_FOUND))))
          /\ srouter = SBefore
    /\ (SRouted /\ slastOp.path \in DOMAIN SBefore) =>
          /\ sstatus = "panicked"
          /\ sdiagnostic # NoneOpt
          /\ srouter = SBefore

\* C21 witness: with /x registered once, a PURGE of /x has reached its
\* handler.
C21_Witness ==
    /\ SCalled
    /\ SReq.method = "PURGE"
    /\ SReq.path = <<"x">>
    /\ DOMAIN srouter = {<<"x">>}
    /\ sinvoked = << [handler |-> 1, req |-> SReq] >>
    /\ sresponse[1].response[1].status = OK

\* Second witness of C21: a second registration of /x has panicked and the
\* first handler is still the one registered.
C21_WitnessDuplicate ==
    /\ SRouted
    /\ slastOp.path = <<"x">>
    /\ slastOp.handler = 2
    /\ sstatus = "panicked"
    /\ srouter[<<"x">>] = 1

\* ------------------------------------------------------------------------
\* MethodRouter::merge, one merge_methods! expansion at a time (router.rs)
\* ------------------------------------------------------------------------

\* Fields set in the MethodRouter values that are merged and registered
\* below.
BuilderSlots == {"get", "post", "put", "fallback"}

\* Position of a field in the order merge_methods! visits them.
SlotIndex(slot) == CHOOSE i \in 1..Len(MergeOrder) : MergeOrder[i] = slot

\* A MethodRouter built by a chain of builder calls that sets the given
\* fields, each to a handler of its own: base + the field's position.
Built(slots, base) ==
    [s \in Slots |-> IF s \in slots THEN base + SlotIndex(s) ELSE NoHandler]

\* The MethodRouter values of an entry registered earlier.
ExistingRouters == { Built(slots, 0) : slots \in SUBSET BuilderSlots }

\* The MethodRouter values registered next: their handlers are boxed by
\* later builder calls.
IncomingRouters == { Built(slots, Len(MergeOrder)) : slots \in SUBSET BuilderSlots }

\* existing_route.merge(route) is entered.
InitMerge ==
    /\ RouterInit
    /\ HandlerIdle
    /\ ConvIdle
    /\ DispatchIdle
    /\ SingleIdle
    /\ OrderIdle
    /\ mself \in { Some(mr) : mr \in ExistingRouters }
    /\ mrouter \in { Some(mr) : mr \in IncomingRouters }
    /\ mbefore = mself
    /\ midx = 1
    /\ mpc = "merging"

\* merge_methods!($method) for the next field: adopt, panic or pass.
MMergeMethod ==
    /\ mpc = "merging"
    /\ midx <= Len(MergeOrder)
    /\ LET r == MergeMethod(mself[1], mrouter[1], MergeOrder[midx])
       IN /\ mself' = Some(r.mr)
          /\ mpc' = IF r.panicked THEN "panicked" ELSE "merging"
          /\ midx' = IF r.panicked THEN midx ELSE midx + 1
    /\ UNCHANGED <<mrouter, mbefore>>
    /\ UNCHANGED routerVars
    /\ UNCHANGED handlerVars
    /\ UNCHANGED convVars
    /\ UNCHANGED dispatchVars
    /\ UNCHANGED singleVars
    /\ UNCHANGED orderVars

\* The end of merge: every field was visited without a panic.
MReturn ==
    /\ mpc = "merging"
    /\ midx > Len(MergeOrder)
    /\ mpc' = "returned"
    /\ UNCHANGED <<mself, mrouter, mbefore, midx>>
    /\ UNCHANGED routerVars
    /\ UNCHANGED handlerVars
    /\ UNCHANGED convVars
    /\ UNCHANGED dispatchVars
    /\ UNCHANGED singleVars
    /\ UNCHANGED orderVars

NextMerge ==
    \/ MMergeMethod
    \/ MReturn

SpecMerge == InitMerge /\ [][NextMerge]_vars

\* The stepwise merge and the function Merge agree.
MergeAgrees ==
    mpc \in {"returned", "panicked"} =>
        LET r == Merge(mbefore[1], mrouter[1])
        IN /\ r.mr = mself[1]
           /\ r.panicked = (mpc = "panicked")
           /\ r.panicked => r.slot = MergeOrder[midx]

\* C23: when merge panics with the slot conflict, self holds exactly the
\* fields and handlers it held when merge was entered: no field of the
\* incoming router has been adopted.
C23_FailingMergeChangesNothing ==
    mpc = "panicked" => mself = mbefore

\* ------------------------------------------------------------------------
\* Two registrations, made in either order (router.rs)
\* ------------------------------------------------------------------------

\* Two MethodRouter values have been built and are to be registered on a
\* new router, each at its pattern.
InitOrder ==
    /\ RouterInit
    /\ HandlerIdle
    /\ ConvIdle
    /\ DispatchIdle
    /\ SingleIdle
    /\ MergeIdle
    /\ oa \in { Some(mr) : mr \in ExistingRouters }
    /\ ob \in { Some(mr) : mr \in IncomingRouters }
    /\ opa \in Patterns
    /\ opb \in Patterns
    /\ oab = NoneOpt
    /\ oba = NoneOpt

\* The next Router::route call of a construction that registers (p1, r1)
\* and then (p2, r2), given the construction so far as an Option of
\* [router, panicked, n]: n registrations made, router the value route
\* returned, or the value it held when it panicked.
RouteNext(o, p1, r1, p2, r2) ==
    IF o = NoneOpt
    THEN LET r == RouteResult(<<>>, p1, r1)
         IN [router |-> r.router, panicked |-> r.panicked, n |-> 1]
    ELSE LET r == RouteResult(o[1].router, p2, r2)
         IN [router |-> r.router, panicked |-> r.panicked, n |-> 2]

\* Can the construction make another Router::route call?
CanRoute(o) == IF o = NoneOpt THEN TRUE ELSE ~o[1].panicked /\ o[1].n < 2

\* Router::new().route(opa, oa).route(opb, ob), one call at a time.
ORouteAB ==
    /\ CanRoute(oab)
    /\ oab' = Some(RouteNext(oab, opa, oa[1], opb, ob[1]))
    /\ UNCHANGED <<oa, ob, opa, opb, oba>>
    /\ UNCHANGED routerVars
    /\ UNCHANGED handlerVars
    /\ UNCHANGED convVars
    /\ UNCHANGED dispatchVars
    /\ UNCHANGED singleVars
    /\ UNCHANGED mergeVars

\* Router::new().route(opb, ob).route(opa, oa), one call at a time.
ORouteBA ==
    /\ CanRoute(oba)
    /\ oba' = Some(RouteNext(oba, opb, ob[1], opa, oa[1]))
    /\ UNCHANGED <<oa, ob, opa, opb, oab>>
    /\ UNCHANGED routerVars
    /\ UNCHANGED handlerVars
    /\ UNCHANGED convVars
    /\ UNCHANGED dispatchVars
    /\ UNCHANGED singleVars
    /\ UNCHANGED mergeVars

NextOrder ==
    \/ ORouteAB
    \/ ORouteBA

SpecOrder == InitOrder /\ [][NextOrder]_vars

\* Has the construction ended: both calls made, or one panicked?
Finished(o) == IF o = NoneOpt THEN FALSE ELSE o[1].panicked \/ o[1].n = 2

\* What a construction yields: a panic, or the router built.
Outcome(o) ==
    IF o[1].panicked THEN [panicked |-> TRUE, router |-> <<>>]
    ELSE [panicked |-> FALSE, router |-> o[1].router]

\* The union of two MethodRouter values with disjoint fields.
SlotUnion(a, b) == [s \in Slots |-> IF a[s] # NoHandler THEN a[s] ELSE b[s]]

\* C22: merging succeeds exactly when the fields set in the existing entry
\* and those set in the incoming router are disjoint, and the entry is then
\* the union of the two; registering A and B at one pattern yields the same
\* entry in either order; registrations at distinct patterns commute.
C22_MergeOrderIndependent ==
    (Finished(oab) /\ Finished(oba)) =>
        /\ opa = opb =>
              /\ oab[1].panicked <=> (Defined(oa[1]) \cap Defined(ob[1]) # {})
              /\ oba[1].panicked <=> (Defined(oa[1]) \cap Defined(ob[1]) # {})
              /\ ~oab[1].panicked =>
                    /\ DOMAIN oab[1].router = {opa}
                    /\ oab[1].router[opa] = SlotUnion(oa[1], ob[1])
              /\ Outcome(oab) = Outcome(oba)
        /\ opa # opb => Outcome(oab) = Outcome(oba)

\* The part of C22 about one pattern: success exactly on disjoint fields,
\* the union as the entry, the same outcome in either order.
SamePatternOrderIndependent ==
    (Finished(oab) /\ Finished(oba) /\ opa = opb) => C22_MergeOrderIndependent

\* Registrations at distinct patterns commute when neither pattern, read as
\* a request path, is matched by the other.
DistinctPatternsCommute ==
    (Finished(oab) /\ Finished(oba) /\ opa # opb
        /\ ~Matches(opa, opb) /\ ~Matches(opb, opa)) =>
            Outcome(oab) = Outcome(oba)

====
